---- MODULE Spec2Model ----
(***************************************************************************)
(* OnlyAppeals MCP server (src/unnamed/part_004): the in-memory case       *)
(* state (property, comps, argument) and the tool handlers that read and   *)
(* mutate it.                                                              *)
(*                                                                         *)
(* Conventions of the model                                                *)
(*  - A JavaScript object is a record; an optional key that is absent or   *)
(*    undefined is absent from the record's DOMAIN.  null is Null.         *)
(*  - A JavaScript string is the sequence of its characters, each a       *)
(*    one-character TLA+ string, so "" is << >>.  Values of a closed enum   *)
(*    (tool names, actions, property types, tones) are TLA+ strings.       *)
(*  - Money amounts are integers (dollars).  Radii and distances are in    *)
(*    hundredths of a mile, coordinates in hundredths of a degree.         *)
(*  - Date.now() is the variable now, a clock that never goes back.        *)
(*  - Every handler leaves its response in the variable last.              *)
(***************************************************************************)
EXTENDS Integers, Sequences, FiniteSets, TLC

VARIABLES
    property,   \* state.property : Property | null
    comps,      \* state.comps    : Comp[]
    argument,   \* state.argument : {narrative, declaredMarketValue, tone} | null
    now,        \* the value Date.now() returns
    fc,         \* a find-comps invocation in flight (suspended on querySFData)
    fc2,        \* a second find-comps invocation in flight at the same time
    lk,         \* a lookup-property invocation in flight
    last        \* the response of the handler that ran last

vars == <<property, comps, argument, now, fc, fc2, lk, last>>

Null == [null |-> TRUE]

----------------------------------------------------------------------------
(* Bounds of the model *)

MaxComps == 2       \* longest comparable list explored
MaxClock == 1       \* Date.now() ranges over 0..MaxClock

\* The invocations in flight are bounded by their frames: two of find-comps
\* (fc, fc2) and one of lookup-property (lk).  An invocation starts in a free
\* frame; every other handler has no await and is served in one step, whatever
\* is in flight.

----------------------------------------------------------------------------
(* JavaScript helpers *)

Has(o, k) == k \in DOMAIN o

\* !x for an optional number field: undefined and 0 are falsy
TruthyNum(o, k) == Has(o, k) /\ o[k] # 0

\* !x for an optional string field: undefined and "" are falsy
TruthyStr(o, k) == Has(o, k) /\ o[k] # <<>>

\* o.k ?? d
OrElse(o, k, d) == IF Has(o, k) THEN o[k] ELSE d

RECURSIVE SumPrice(_)
SumPrice(s) == IF s = <<>> THEN 0 ELSE Head(s).salePrice + SumPrice(Tail(s))

\* arr.findIndex(c => c.id === id): 1-based here, 0 for -1
RECURSIVE FindFrom(_, _, _)
FindFrom(s, id, i) ==
    IF i > Len(s) THEN 0
    ELSE IF s[i].id = id THEN i
    ELSE FindFrom(s, id, i + 1)

findIndex(s, id) == FindFrom(s, id, 1)

\* arr.filter(c => c.included)
Included(s) == SelectSeq(s, LAMBDA c : c.included)

\* Math.round(n / d) for d > 0: round half up (towards +Infinity)
RoundDiv(n, d) == (2 * n + d) \div (2 * d)

----------------------------------------------------------------------------
(* Strings *)

Digits == {"0", "1", "2", "3", "4", "5", "6", "7", "8", "9"}

UpperLetters == <<"A", "B", "C", "D", "E", "F", "G", "H", "I", "J", "K", "L", "M",
                  "N", "O", "P", "Q", "R", "S", "T", "U", "V", "W", "X", "Y", "Z">>

LowerLetters == <<"a", "b", "c", "d", "e", "f", "g", "h", "i", "j", "k", "l", "m",
                  "n", "o", "p", "q", "r", "s", "t", "u", "v", "w", "x", "y", "z">>

IsDigit(c) == c \in Digits
UpperSet == {UpperLetters[i] : i \in 1..26}
LowerSet == {LowerLetters[i] : i \in 1..26}

IsUpper(c) == c \in UpperSet
IsLower(c) == c \in LowerSet
IsLetter(c) == IsUpper(c) \/ IsLower(c)
IsSpace(c) == c = " "

\* one character of s.toUpperCase() / s.toLowerCase()
UpperChar(c) == IF IsLower(c) THEN UpperLetters[CHOOSE i \in 1..26 : LowerLetters[i] = c] ELSE c
LowerChar(c) == IF IsUpper(c) THEN LowerLetters[CHOOSE i \in 1..26 : UpperLetters[i] = c] ELSE c

toUpperCase(s) == [i \in 1..Len(s) |-> UpperChar(s[i])]
toLowerCase(s) == [i \in 1..Len(s) |-> LowerChar(s[i])]

DigitValue(c) == CHOOSE v \in 0..9 : ToString(v) = c

\* s.slice(i - 1): the characters of s from position i on
From(s, i) == IF i > Len(s) THEN <<>> ELSE SubSeq(s, i, Len(s))

\* s.startsWith(t, i - 1)
MatchAt(s, t, i) ==
    /\ i >= 1
    /\ i + Len(t) - 1 <= Len(s)
    /\ \A j \in 1..Len(t) : s[i + j - 1] = t[j]

\* s.includes(t)
includes(s, t) == \E i \in 1..(Len(s) + 1) : MatchAt(s, t, i)

\* String(n) for an integer n >= 0
RECURSIVE DecimalDigits(_)
DecimalDigits(n) ==
    IF n < 10 THEN <<ToString(n)>>
    ELSE Append(DecimalDigits(n \div 10), ToString(n % 10))

\* parseInt(s, 10) of a string of digits
RECURSIVE ParseDigits(_)
ParseDigits(s) ==
    IF s = <<>> THEN 0
    ELSE 10 * ParseDigits(SubSeq(s, 1, Len(s) - 1)) + DigitValue(s[Len(s)])

\* s.trim()
RECURSIVE TrimLeft(_)
TrimLeft(s) == IF s # <<>> /\ IsSpace(Head(s)) THEN TrimLeft(Tail(s)) ELSE s

RECURSIVE TrimRight(_)
TrimRight(s) ==
    IF s # <<>> /\ IsSpace(s[Len(s)]) THEN TrimRight(SubSeq(s, 1, Len(s) - 1)) ELSE s

trim(s) == TrimRight(TrimLeft(s))

\* s.replace(/\s+/g, " ")
RECURSIVE CollapseSpaces(_)
CollapseSpaces(s) ==
    IF s = <<>> THEN <<>>
    ELSE IF IsSpace(Head(s))
         THEN <<" ">> \o CollapseSpaces(TrimLeft(s))
         ELSE <<Head(s)>> \o CollapseSpaces(Tail(s))

\* the length of the run of characters satisfying the class at the start of s
RECURSIVE DigitRun(_)
DigitRun(s) == IF s # <<>> /\ IsDigit(Head(s)) THEN 1 + DigitRun(Tail(s)) ELSE 0

RECURSIVE ZeroRun(_)
ZeroRun(s) == IF s # <<>> /\ Head(s) = "0" THEN 1 + ZeroRun(Tail(s)) ELSE 0

\* arr.join(" ")
RECURSIVE JoinSpace(_)
JoinSpace(parts) ==
    IF parts = <<>> THEN <<>>
    ELSE IF Len(parts) = 1 THEN Head(parts)
    ELSE Head(parts) \o <<" ">> \o JoinSpace(Tail(parts))

----------------------------------------------------------------------------
(* parseAddress *)

\* the alternation (ST|AV|AVE|BLVD|DR|CT|PL|WAY|LN|RD|TER|CIR|HWY), in its order
SuffixTokens ==
    << <<"S", "T">>, <<"A", "V">>, <<"A", "V", "E">>, <<"B", "L", "V", "D">>,
       <<"D", "R">>, <<"C", "T">>, <<"P", "L">>, <<"W", "A", "Y">>, <<"L", "N">>,
       <<"R", "D">>, <<"T", "E", "R">>, <<"C", "I", "R">>, <<"H", "W", "Y">> >>

\* the alternatives that match the text at position p; u is the text in upper
\* case (the i flag ignores case)
SuffixesAt(u, p) == {k \in 1..Len(SuffixTokens) : MatchAt(u, SuffixTokens[k], p)}

\* /^(.+?)\s*(ST|...)\s*(.*)$/i with a lazy group 1 of n characters: \s* takes
\* the whole run of spaces after it (a shorter run would leave a space where
\* the alternation must start), then the alternation must match
SuffixPos(s, n) == n + 1 + (Len(From(s, n + 1)) - Len(TrimLeft(From(s, n + 1))))

SuffixMatchLens(u) == {n \in 1..Len(u) : SuffixesAt(u, SuffixPos(u, n)) # {}}

\* beforeSuffix.match(/\d{4}/g): the groups of four digits, scanning left to right
RECURSIVE FourDigitGroups(_)
FourDigitGroups(s) ==
    IF Len(s) < 4 THEN <<>>
    ELSE IF \A j \in 1..4 : IsDigit(s[j])
         THEN <<SubSeq(s, 1, 4)>> \o FourDigitGroups(From(s, 5))
         ELSE FourDigitGroups(Tail(s))

\* beforeSuffix.replace(/\d{4}/g, "")
RECURSIVE RemoveFourDigitGroups(_)
RemoveFourDigitGroups(s) ==
    IF Len(s) < 4 THEN s
    ELSE IF \A j \in 1..4 : IsDigit(s[j])
         THEN RemoveFourDigitGroups(From(s, 5))
         ELSE <<Head(s)>> \o RemoveFourDigitGroups(Tail(s))

\* the first group whose parseInt is > 0, as String(val); "" when there is none
RECURSIVE FirstPositive(_)
FirstPositive(nums) ==
    IF nums = <<>> THEN <<>>
    ELSE IF ParseDigits(Head(nums)) > 0 THEN DecimalDigits(ParseDigits(Head(nums)))
    ELSE FirstPositive(Tail(nums))

ThreeLettersAt(s, p) == p + 2 <= Len(s) /\ \A j \in 0..2 : IsLetter(s[p + j])

\* the length /^[A-Z]?\d+[A-Z]?(?=[A-Z]{3})/i matches at the start of s, 0 for
\* no match.  a is the optional leading letter; \d+ must take the whole digit
\* run (after fewer digits the next character is a digit, which neither
\* [A-Z]? nor the lookahead accepts); b is the optional trailing letter.
JunkLenWith(s, a) ==
    LET d == DigitRun(From(s, a + 1))
        e == a + d
    IN  IF d = 0 THEN 0
        ELSE IF e < Len(s) /\ IsLetter(s[e + 1]) /\ ThreeLettersAt(s, e + 2) THEN e + 1
        ELSE IF ThreeLettersAt(s, e + 1) THEN e
        ELSE 0

JunkLen(s) ==
    IF s # <<>> /\ IsLetter(Head(s)) /\ JunkLenWith(s, 1) > 0 THEN JunkLenWith(s, 1)
    ELSE JunkLenWith(s, 0)

\* s.replace(/[^A-Z0-9]/gi, "")
AlnumOnly(s) == SelectSeq(s, LAMBDA c : IsLetter(c) \/ IsDigit(c))

\* afterSuffix.replace(/^#/, "").replace(/^0+/, "").replace(/[^A-Z0-9]/gi, "")
UnitOf(afterSuffix) ==
    LET a == IF afterSuffix # <<>> /\ Head(afterSuffix) = "#" THEN Tail(afterSuffix)
             ELSE afterSuffix
        b == From(a, ZeroRun(a) + 1)
    IN  AlnumOnly(b)

\* collapsed.replace(/^0+(\d)/, "$1")
StripLeadingZeros(s) ==
    LET z == ZeroRun(s) IN
    IF z = 0 THEN s
    ELSE IF z < Len(s) /\ IsDigit(s[z + 1]) THEN From(s, z + 1)
    ELSE IF z >= 2 THEN From(s, z)
    ELSE s

parseAddress(raw) ==
    LET collapsed == trim(CollapseSpaces(trim(raw)))
        upper == toUpperCase(collapsed)
        lens == SuffixMatchLens(upper)
    IN  IF lens # {}
        THEN LET n == CHOOSE m \in lens : \A o \in lens : m <= o
                 p == SuffixPos(collapsed, n)
                 alts == SuffixesAt(upper, p)
                 k == CHOOSE a \in alts : \A o \in alts : a <= o
                 beforeSuffix == SubSeq(collapsed, 1, n)
                 suffix == SuffixTokens[k]
                 afterSuffix == TrimLeft(From(collapsed, p + Len(suffix)))
                 streetNum == FirstPositive(FourDigitGroups(beforeSuffix))
                 name1 == trim(RemoveFourDigitGroups(beforeSuffix))
                 streetName == trim(From(name1, JunkLen(name1) + 1))
                 unit == UnitOf(afterSuffix)
                 parts == SelectSeq(<<streetNum, streetName, suffix>>, LAMBDA x : x # <<>>)
                 base == CollapseSpaces(JoinSpace(parts))
             IN  IF unit # <<>> THEN base \o <<" ", "#">> \o unit ELSE base
        ELSE StripLeadingZeros(collapsed)

----------------------------------------------------------------------------
(* String literals *)

StrComp == <<"c", "o", "m", "p", "-">>                  \* "comp-"
StrCondominium == <<"c", "o", "n", "d", "o", "m", "i", "n", "i", "u", "m">>
StrLiveWork == <<"l", "i", "v", "e", "/", "w", "o", "r", "k">>
StrTownHouse == <<"t", "o", "w", "n", " ", "h", "o", "u", "s", "e">>
StrCoop == <<"c", "o", "o", "p">>
StrFlat == <<"f", "l", "a", "t">>
StrDuplex == <<"d", "u", "p", "l", "e", "x">>

----------------------------------------------------------------------------
(* mapPropertyType, haversineDistance, recordToProperty *)

\* classDef is the record's property_class_code_definition; an undefined one is
\* passed as "", which is what (classDef ?? "") makes of it
mapPropertyType(classDef) ==
    LET lower == toLowerCase(classDef) IN
    IF includes(lower, StrCondominium) /\ includes(lower, StrLiveWork) THEN "live-work"
    ELSE IF includes(lower, StrCondominium) THEN "condo"
    ELSE IF includes(lower, StrTownHouse) THEN "townhouse"
    ELSE IF includes(lower, StrCoop) THEN "co-op"
    ELSE IF includes(lower, StrFlat) \/ includes(lower, StrDuplex) THEN "condo"
    ELSE "sfh"

\* parseFloat(s) of the decimal strings the model's rows hold: the value of the
\* leading run of digits.  (A string with no leading digit parses to NaN; the
\* rows of the model hold none.)
parseFloat(s) == ParseDigits(SubSeq(s, 1, DigitRun(s)))

\* parseFloat(rec.k ?? "0")
FieldNumber(rec, k) == IF Has(rec, k) THEN parseFloat(rec[k]) ELSE 0

Abs(x) == IF x < 0 THEN 0 - x ELSE x

\* haversineDistance(lat1, lng1, lat2, lng2) in millionths of a mile, between
\* points given in hundredths of a degree.  The model's points lie on one
\* meridian (lng1 = lng2), where the haversine formula reduces to
\* R * |lat2 - lat1| * PI / 180 with R = 3959, that is 0.690976 miles for each
\* hundredth of a degree.
haversineDistance(lat1, lng1, lat2, lng2) == 690976 * Abs(lat2 - lat1)

\* rec.assessed_land_value + rec.assessed_improvement_value, both parseFloat'ed
AssessedOf(rec) ==
    FieldNumber(rec, "assessed_land_value") + FieldNumber(rec, "assessed_improvement_value")

\* {k: v} when the value is defined, {} when it is undefined
Field(k, defined, v) == IF defined THEN [x \in {k} |-> v] ELSE <<>>

\* the caller's estimate dropped
EstimateIgnored(est, assessed) == assessed

\* estimatedMarketValue ?? Math.round(assessed)
EstimateOrAssessed(est, assessed) == IF est # <<>> THEN est[1] ELSE assessed

\* est is the caller's estimatedMarketValue: <<v>>, or << >> when omitted
recordToProperty(rec, est) ==
    LET assessed == AssessedOf(rec) IN
    [ address |-> parseAddress(IF Has(rec, "property_location")
                               THEN rec.property_location ELSE <<>>),
      apn |-> IF Has(rec, "parcel_number") THEN rec.parcel_number ELSE <<>>,
      type |-> mapPropertyType(IF Has(rec, "property_class_code_definition")
                               THEN rec.property_class_code_definition ELSE <<>>),
      assessedValue |-> assessed,
      estimatedMarketValue |-> EstimateOrAssessed(est, assessed) ]
    @@ Field("sqft", FieldNumber(rec, "property_area") # 0, FieldNumber(rec, "property_area"))
    @@ Field("beds", FieldNumber(rec, "number_of_bedrooms") # 0,
             FieldNumber(rec, "number_of_bedrooms"))
    @@ Field("baths", FieldNumber(rec, "number_of_bathrooms") # 0,
             FieldNumber(rec, "number_of_bathrooms"))
    @@ Field("purchaseYear", TruthyStr(rec, "year_property_built"),
             IF Has(rec, "year_property_built") THEN parseFloat(rec.year_property_built) ELSE 0)
    @@ Field("lat", Has(rec, "the_geom"), IF Has(rec, "the_geom") THEN rec.the_geom[2] ELSE 0)
    @@ Field("lng", Has(rec, "the_geom"), IF Has(rec, "the_geom") THEN rec.the_geom[1] ELSE 0)
    @@ Field("neighborhood", Has(rec, "assessor_neighborhood"),
             IF Has(rec, "assessor_neighborhood") THEN rec.assessor_neighborhood ELSE <<>>)

----------------------------------------------------------------------------
(* The record source: the rows querySFData may return *)

RowGreen ==
    [ property_location |-> <<"0", "0", "0", "0", " ", "0", "9", "9", "0", " ", "G", "R", "E", "E", "N", " ", " ", "S", "T", "0", "0", "0", "0">>,
      parcel_number |-> <<"A", "1">>,
      property_class_code_definition |-> <<"D", "w", "e", "l", "l", "i", "n", "g">>,
      year_property_built |-> <<"1", "9", "5", "0">>,
      number_of_bedrooms |-> <<"3">>,
      number_of_bathrooms |-> <<"2">>,
      property_area |-> <<"1", "2", "0", "0">>,
      assessed_land_value |-> <<"3", "0", "0", "0", "0", "0">>,
      assessed_improvement_value |-> <<"1", "2", "5", "0", "0", "0">>,
      current_sales_date |-> <<"2", "0", "2", "4", "-", "0", "5", "-", "0", "1", "T", "0", "0", ":", "0", "0", ":", "0", "0", ".", "0", "0", "0">>,
      assessor_neighborhood |-> <<"M", "a", "r", "i", "n", "a">>,
      the_geom |-> <<-12242, 3778>> ]

RowPacific ==
    [ property_location |-> <<"0", "0", "0", "0", " ", "1", "6", "2", "5", " ", "P", "A", "C", "I", "F", "I", "C", " ", "A", "V", "0", "0", "0", "7">>,
      parcel_number |-> <<"B", "2">>,
      property_class_code_definition |-> <<"C", "o", "n", "d", "o", "m", "i", "n", "i", "u", "m">>,
      assessed_land_value |-> <<"5", "0", "0", "0", "0", "0">>,
      current_sales_date |-> <<"2", "0", "2", "3", "-", "1", "1", "-", "2", "0", "T", "0", "0", ":", "0", "0", ":", "0", "0", ".", "0", "0", "0">>,
      the_geom |-> <<-12242, 3777>> ]

\* a row with no parcel_number, no location, no sale date and no geometry
RowNoParcel ==
    [ assessed_land_value |-> <<"2", "0", "0", "0", "0", "0">>,
      assessed_improvement_value |-> <<"2", "6", "0", "0", "0", "0">> ]

\* the parcel of RowGreen again, with other values
RowGreenAgain ==
    [ property_location |-> <<"0", "0", "0", "0", " ", "0", "9", "9", "0", " ", "G", "R", "E", "E", "N", " ", " ", "S", "T", "0", "0", "0", "0">>,
      parcel_number |-> <<"A", "1">>,
      assessed_improvement_value |-> <<"5", "2", "0", "0", "0", "0">>,
      current_sales_date |-> <<"2", "0", "2", "4", "-", "0", "6", "-", "3", "0">> ]

\* a row whose assessed values sum to zero
RowZero ==
    [ property_location |-> <<"0", "5", "6", "0", " ", "0", "5", "5", "8", " ", "2", "0", "T", "H", " ", "A", "V", "0", "0", "0", "0">>,
      parcel_number |-> <<"C", "3">>,
      assessed_land_value |-> <<"0">> ]

Rows == {RowGreen, RowPacific, RowNoParcel, RowGreenAgain, RowZero}

\* the rows that have a parcel number
ParcelRows == {r \in Rows : Has(r, "parcel_number")}

\* the responses of the record source: no row, one row, several rows, one row
\* twice, one parcel twice, rows without a parcel number
CompsResponses ==
    { <<>>,
      <<RowGreen>>,
      <<RowNoParcel>>,
      <<RowZero>>,
      <<RowGreen, RowGreen>>,
      <<RowGreenAgain, RowGreen>>,
      <<RowZero, RowPacific>> }

\* the responses to lookup-property: no row, one row (with or without
\* assessed value), several rows
LookupResponses == {<<>>, <<RowPacific>>, <<RowZero>>, <<RowGreen, RowPacific>>}

\* parcel_number != apn, as the record source decides it for the rows that
\* have a parcel number
ExcludesParcel(records, apn) ==
    \A i \in 1..Len(records) :
        Has(records[i], "parcel_number") => records[i].parcel_number # apn

----------------------------------------------------------------------------
(* calculateCaseStrength *)

\* calculateCaseStrength(assessedValue, n / d) with d > 0.  The code computes
\* gap = ((assessedValue - e) / assessedValue) * 100 in doubles, e being the
\* double nearest to n / d, and compares gap >= 15 and gap >= 5.
\*
\* Off a threshold the exact gap is at least 5 / (|a| * d) away from it and the
\* rounding errors of the three operations stay below 10^-13, so the exact
\* comparison decides.  On a threshold n / d is q * |a| / 20 (q = 17 for 15
\* percent, 19 for 5 percent) and the outcome depends on |a| alone.

\* the thresholds taken as strict
CaseStrengthGapAbove(a, n, d, pct) ==
    IF a > 0 THEN 100 * (a * d - n) > pct * a * d
    ELSE IF a < 0 THEN 100 * (a * d - n) < pct * a * d
    ELSE n < 0

\* the j with 2^j <= m < 2^(j+1), m in 1..2^28 - 1
ReferenceExponent(m) == CHOOSE j \in 0..27 : 2 ^ j <= m /\ m < 2 ^ (j + 1)

\* The comparison for an exact gap of pct percent (15 or 5) of A > 0.
\* When 5 divides A the reference q * A / 20 is a double, a - e and the quotient
\* 0.15 or 0.05 are rounded once, and 0.15 * 100, 0.05 * 100 give 15 and 5.
\* Otherwise e is the reference rounded to 53 bits: the fraction it drops is
\* r fifths of its last place 2^(j - 53), so e is low by r fifths for r = 1, 2
\* and high by 5 - r fifths for r = 3, 4.  a - e is exact; (a - e) / a is a
\* double next to 0.15 or 0.05, and its product with 100 reaches the threshold
\* exactly when e is low, or high by so little that the quotient still rounds
\* to the double nearest 0.15 (one fifth of a place, with 2^(j+3) < 7 * A).
GapOnThresholdAtLeast(A, pct) ==
    LET q == (100 - pct) \div 5
        j == ReferenceExponent((q * A) \div 10)
        r == (((q * A) % 5) * ((2 ^ ((51 - j) % 4)) % 5)) % 5
    IN  \/ A % 5 = 0
        \/ r <= 2
        \/ pct = 15 /\ r = 4 /\ 2 ^ (j + 3) < 7 * A

\* (0 - e) / 0 is +Infinity when e < 0, NaN or -Infinity otherwise; a negative
\* assessedValue turns the comparison around
CaseStrengthGapAtLeast(a, n, d, pct) ==
    LET q == (100 - pct) \div 5 IN
    IF a = 0 THEN n < 0
    ELSE IF q * a * d = 20 * n THEN GapOnThresholdAtLeast(Abs(a), pct)
    ELSE IF a > 0 THEN q * a * d > 20 * n
    ELSE q * a * d < 20 * n

calculateCaseStrengthQ(a, n, d) ==
    IF CaseStrengthGapAtLeast(a, n, d, 15) THEN "strong"
    ELSE IF CaseStrengthGapAtLeast(a, n, d, 5) THEN "medium"
    ELSE "weak"

calculateCaseStrength(assessedValue, estimatedMarketValue) ==
    calculateCaseStrengthQ(assessedValue, estimatedMarketValue, 1)

\* included.length > 0 ? sum / included.length : property.estimatedMarketValue,
\* scored against property.assessedValue
StrengthOf(p, cs) ==
    LET included == Included(cs) IN
    IF Len(included) > 0
    THEN calculateCaseStrengthQ(p.assessedValue, SumPrice(included), Len(included))
    ELSE calculateCaseStrength(p.assessedValue, p.estimatedMarketValue)

----------------------------------------------------------------------------
(* Tool inputs *)

\* manage-property: the zod schema makes address, apn, type and the two positive
\* values required; purchaseYear, sqft, beds and baths are optional
PropertyInputs ==
    { [ address |-> <<"1", "6", "2", "5", " ", "P", "a", "c", "i", "f", "i", "c", " ", "A", "v", "e">>, apn |-> <<"B", "2">>, type |-> "condo",
        assessedValue |-> 500000, estimatedMarketValue |-> 450000 ],
      [ address |-> <<"1", "2", " ", "E", "l", "m", " ", "S", "t">>, apn |-> <<"D", "4">>, type |-> "sfh",
        assessedValue |-> 500000, estimatedMarketValue |-> 500000,
        purchaseYear |-> 2015, sqft |-> 1500, beds |-> 3, baths |-> 2 ] }

\* manage-comps: the comp payload.  Every key is optional; the payload itself is
\* optional (Null).
CompExtras ==
    { <<>>,
      [ sqft |-> 900, beds |-> 2, baths |-> 1, distance |-> 25, notes |-> <<"r", "e", "m", "o", "d", "e", "l">> ] }

\* a payload add accepts
GoodComp ==
    [ address |-> <<"1", "2", " ", "E", "L", "M", " ", "S", "T">>, saleDate |-> <<"2", "0", "2", "4", "-", "0", "3", "-", "1", "5">>, salePrice |-> 490000 ]

\* g without the key k
Without(g, k) == [x \in DOMAIN g \ {k} |-> g[x]]

\* payloads without an id, as a caller of add sends them: no payload, an empty
\* one, a good one with or without the optional fields, and a good one with
\* one required field left out, empty or zero
AddPayloads ==
    {Null, <<>>}
    \cup {GoodComp @@ e : e \in CompExtras}
    \cup {Without(GoodComp, k) : k \in {"address", "saleDate", "salePrice"}}
    \cup { [address |-> <<>>] @@ GoodComp, [saleDate |-> <<>>] @@ GoodComp,
           [salePrice |-> 0] @@ GoodComp }

\* the fields a caller of update sends besides the id
UpdateFields ==
    { <<>>,
      [ salePrice |-> 520000, notes |-> <<>>, distance |-> 40 ],
      [ address |-> <<"9", " ", "O", "A", "K", " ", "S", "T">>, saleDate |-> <<"2", "0", "2", "4", "-", "0", "2", "-", "0", "1">>,
        sqft |-> 1000, beds |-> 1, baths |-> 1 ] }

\* an id that no comparable ever has
StrangerId == <<"c", "o", "m", "p", "-", "z", "z">>

\* ids that no comparable has: the empty string and a stranger
AbsentIds == {<<>>, StrangerId}

\* payloads of update, remove and toggle: no payload, a payload without id,
\* the id of a comparable of the list with each choice of fields, or an id
\* that no comparable has
IdPayloads(fields) ==
    {Null, <<>>}
    \cup {[id |-> comps[i].id] @@ f : i \in 1..Len(comps), f \in fields}
    \cup {[id |-> i] : i \in AbsentIds}

\* the optional numbers of a payload
OptionalNumbers == {"sqft", "beds", "baths", "distance"}

\* the actions that name a comparable by its id
IdActions == {"update", "remove", "toggle"}

\* the payloads of list: no payload, an empty one
ListPayloads == {Null, <<>>}

\* payloads that name an id no comparable has
StrangerPayload == [id |-> StrangerId]

StrangerUpdate == [id |-> StrangerId, salePrice |-> 520000]

\* a good payload and one whose sale price is zero
CaseAddPayloads == {GoodComp, [GoodComp EXCEPT !.salePrice = 0]}

\* manage-property inputs with the optional fields
SizedPropertyInputs == {p \in PropertyInputs : "sqft" \in DOMAIN p}

\* lookup-property by an address alone
GreenStreetInput == [address |-> <<"9", "9", "0", " ", "G", "r", "e", "e", "n", " ", "S", "t">>]

\* check-eligibility: the property types of the schema
PropertyTypes == {"sfh", "condo"}

\* find-comps: the starting radius (positive), in hundredths of a mile
RadiusInputs == {50, 100, 120, 250}

----------------------------------------------------------------------------
(* manage-comps *)

\* `comp-${Date.now()}`
TimeId(t) == StrComp \o DecimalDigits(t)

\* the response of manage-comps and find-comps: the widget's caseStrength and
\* the counts of the output text
Widget(op, action, p, cs) ==
    [ op |-> op, action |-> action, res |-> "ok",
      total |-> Len(cs), included |-> Len(Included(cs)),
      caseStrength |-> IF p # Null THEN StrengthOf(p, cs) ELSE "weak" ]

\* no response yet: the handler is suspended on the record source
Pending(op) == [op |-> op, action |-> "", res |-> "pending"]

Error(op, action, kind) == [op |-> op, action |-> action, res |-> "error", error |-> kind]

\* !comp || !comp.address || !comp.salePrice || !comp.saleDate
AddRejected(comp) ==
    \/ comp = Null
    \/ ~TruthyStr(comp, "address")
    \/ ~TruthyNum(comp, "salePrice")
    \/ ~TruthyStr(comp, "saleDate")

\* a new comparable that starts excluded
newCompExcluded(comp, t) ==
    [ id |-> TimeId(t),
      address |-> comp.address,
      saleDate |-> comp.saleDate,
      salePrice |-> comp.salePrice,
      sqft |-> OrElse(comp, "sqft", 0),
      beds |-> OrElse(comp, "beds", 0),
      baths |-> OrElse(comp, "baths", 0),
      distance |-> OrElse(comp, "distance", 0),
      included |-> FALSE,
      notes |-> OrElse(comp, "notes", <<>>) ]

newComp(comp, t) ==
    [ id |-> TimeId(t),
      address |-> comp.address,
      saleDate |-> comp.saleDate,
      salePrice |-> comp.salePrice,
      sqft |-> OrElse(comp, "sqft", 0),
      beds |-> OrElse(comp, "beds", 0),
      baths |-> OrElse(comp, "baths", 0),
      distance |-> OrElse(comp, "distance", 0),
      included |-> TRUE,
      notes |-> OrElse(comp, "notes", <<>>) ]

\* comp?.id as a condition
HasId(comp) == comp # Null /\ TruthyStr(comp, "id")

\* the spread the other way round: { ...comp, ...state.comps[idx] }
MergeCompKeepOld(old, comp) == old @@ comp

\* { ...state.comps[idx], ...comp }
MergeComp(old, comp) == comp @@ old

\* state.comps.splice(idx, 1)
RemoveAt(cs, idx) == SubSeq(cs, 1, idx - 1) \o SubSeq(cs, idx + 1, Len(cs))

\* found.included = false
ExcludeAt(cs, idx) == [cs EXCEPT ![idx].included = FALSE]

\* the flipped comparable moved to the end of the list
ToggleAtLast(cs, idx) ==
    RemoveAt(cs, idx) \o <<[cs[idx] EXCEPT !.included = ~cs[idx].included]>>

\* found.included = !found.included
ToggleAt(cs, idx) == [cs EXCEPT ![idx].included = ~cs[idx].included]

\* What manage-comps does to the list: ok is FALSE when the handler returns an
\* error (before the aggregates are computed), and comps is the list it leaves
CompsAfter(cs, action, comp, t) ==
    IF action = "add"
    THEN IF AddRejected(comp) THEN [ok |-> FALSE, comps |-> cs]
         ELSE [ok |-> TRUE, comps |-> Append(cs, newComp(comp, t))]
    ELSE IF action \in IdActions /\ HasId(comp)
    THEN LET idx == findIndex(cs, comp.id) IN
         IF idx = 0 THEN [ok |-> FALSE, comps |-> cs]
         ELSE IF action = "update"
         THEN [ok |-> TRUE, comps |-> [cs EXCEPT ![idx] = MergeComp(cs[idx], comp)]]
         ELSE IF action = "remove" THEN [ok |-> TRUE, comps |-> RemoveAt(cs, idx)]
         ELSE [ok |-> TRUE, comps |-> ToggleAt(cs, idx)]
    ELSE [ok |-> TRUE, comps |-> cs]

ManageComps(action, comp) ==
    LET after == CompsAfter(comps, action, comp, now) IN
    /\ Len(after.comps) <= MaxComps
    /\ comps' = after.comps
    /\ last' = IF after.ok
               THEN Widget("manage-comps", action, property, after.comps)
               ELSE Error("manage-comps", action,
                          IF action = "add" THEN "InvalidComparable" ELSE "NotFound")
    /\ UNCHANGED <<property, argument, now, fc, fc2, lk>>

----------------------------------------------------------------------------
(* manage-property *)

\* a new property discarding the argument drafted for the old one
ManagePropertyResetting(input) ==
    /\ property' = input
    /\ argument' = Null
    /\ last' = [op |-> "manage-property", action |-> "", res |-> "ok"]
    /\ UNCHANGED <<comps, now, fc, fc2, lk>>

\* a new property with every distance measured again; the payload carries no
\* coordinates, which makes each distance 0
ManagePropertyRemeasuring(input) ==
    /\ property' = input
    /\ comps' = [i \in 1..Len(comps) |-> [comps[i] EXCEPT !.distance = 0]]
    /\ last' = [op |-> "manage-property", action |-> "", res |-> "ok"]
    /\ UNCHANGED <<argument, now, fc, fc2, lk>>

ManageProperty(input) ==
    /\ property' = input
    /\ last' = [op |-> "manage-property", action |-> "", res |-> "ok"]
    /\ UNCHANGED <<comps, argument, now, fc, fc2, lk>>

----------------------------------------------------------------------------
(* find-comps *)

\* radiiToTry without the "radius <" tests
radiiToTryAll(radius) == <<radius, 75, 100, 150, 200>>

\* radiiToTry
radiiToTry(radius) ==
    <<radius>> \o SelectSeq(<<75, 100, 150, 200>>, LAMBDA c : radius < c)

\* Math.round(r * 1609.34), r in hundredths of a mile
radiusMeters(r) == RoundDiv(r * 160934, 10000)

\* the query find-comps sends for radius r: the circle and the excluded parcel
\* are read from state.property when the query is built; a coordinate is
\* <<v>>, or << >> for the "undefined" that an absent one prints in the query
CompsQuery(r, p) ==
    [ r |-> r, radiusMeters |-> radiusMeters(r),
      lat |-> IF Has(p, "lat") THEN <<p.lat>> ELSE <<>>,
      lng |-> IF Has(p, "lng") THEN <<p.lng>> ELSE <<>>,
      apn |-> p.apn ]

\* one row of the response as a Comp; t is Date.now() when the row is mapped
recordToComp(rec, p, t) ==
    LET dist == IF Has(rec, "the_geom") /\ p # Null /\ TruthyNum(p, "lat") /\ TruthyNum(p, "lng")
                THEN haversineDistance(p.lat, p.lng, rec.the_geom[2], rec.the_geom[1])
                ELSE 0
    IN  [ id |-> IF Has(rec, "parcel_number") THEN StrComp \o rec.parcel_number ELSE TimeId(t),
          address |-> parseAddress(IF Has(rec, "property_location")
                                   THEN rec.property_location ELSE <<>>),
          saleDate |-> IF TruthyStr(rec, "current_sales_date")
                       THEN LET d == rec.current_sales_date
                                cut == {i \in 1..Len(d) : d[i] = "T"}
                            IN  IF cut = {} THEN d
                                ELSE SubSeq(d, 1, (CHOOSE i \in cut : \A j \in cut : i <= j) - 1)
                       ELSE <<>>,
          salePrice |-> AssessedOf(rec),
          sqft |-> FieldNumber(rec, "property_area"),
          beds |-> FieldNumber(rec, "number_of_bedrooms"),
          baths |-> FieldNumber(rec, "number_of_bathrooms"),
          distance |-> RoundDiv(dist, 10000),
          included |-> TRUE,
          notes |-> IF Has(rec, "property_class_code_definition")
                    THEN rec.property_class_code_definition ELSE <<>> ]

\* records.filter(assessed > 0).map(...): times[i] is Date.now() for row i
RECURSIVE newComps(_, _, _)
newComps(records, p, times) ==
    IF records = <<>> THEN <<>>
    ELSE LET rest == newComps(Tail(records), p, Tail(times)) IN
         IF AssessedOf(Head(records)) > 0
         THEN <<recordToComp(Head(records), p, Head(times))>> \o rest
         ELSE rest

\* a merge in which a returned row replaces the comparable that has its id
MergeCompsLastWins(cs, new) ==
    LET existingIds == {cs[i].id : i \in 1..Len(cs)}
        newIds == {new[k].id : k \in 1..Len(new)}
    IN  [i \in 1..Len(cs) |->
            IF cs[i].id \in newIds
            THEN new[CHOOSE k \in 1..Len(new) : new[k].id = cs[i].id]
            ELSE cs[i]]
        \o SelectSeq(new, LAMBDA c : c.id \notin existingIds)

\* a merge that pushes every returned row without looking at the list
MergeCompsUnchecked(cs, new) == cs \o new

\* for (const comp of newComps) if (!existingIds.has(comp.id)) state.comps.push(comp)
\* existingIds is computed once, before the loop
MergeComps(cs, new) ==
    LET existingIds == {cs[i].id : i \in 1..Len(cs)} IN
    cs \o SelectSeq(new, LAMBDA c : c.id \notin existingIds)

\* the two early returns of the handler: "" when the search may go ahead
FindCompsPreconditionSwapped(p) ==
    IF p = Null THEN "MissingCoordinates"
    ELSE IF ~TruthyNum(p, "lat") \/ ~TruthyNum(p, "lng") THEN "NoActiveProperty"
    ELSE ""

FindCompsPrecondition(p) ==
    IF p = Null THEN "NoActiveProperty"
    ELSE IF ~TruthyNum(p, "lat") \/ ~TruthyNum(p, "lng") THEN "MissingCoordinates"
    ELSE ""

\* an invocation runs up to its first await; f is its frame before the
\* step and fNext the frame after it.  A call that is refused sends no query
\* and takes no frame; one that sends its first query takes a free frame.
FindCompsStartIn(f, fNext, radius) ==
    /\ IF FindCompsPrecondition(property) # ""
       THEN /\ last' = Error("find-comps", "", FindCompsPrecondition(property))
            /\ fNext = f
       ELSE /\ f = Null
            /\ fNext = [ radius |-> radius, radiiToTry |-> radiiToTry(radius), i |-> 1,
                         queried |-> <<CompsQuery(radius, property)>>, answers |-> <<>> ]
            /\ last' = Pending("find-comps")
    /\ UNCHANGED <<property, comps, argument, now, lk>>

FindCompsStart(radius) == FindCompsStartIn(fc, fc', radius) /\ fc2' = fc2

\* the empty outcome reported as a failure
EmptyOutcomeAsError(p, cs) == Error("find-comps", "", "NoComparables")

\* the response when every radius came back empty: a widget, not an error
EmptyOutcome(p, cs) ==
    [ op |-> "find-comps", action |-> "", res |-> "empty", total |-> Len(cs),
      included |-> Len(Included(cs)),
      caseStrength |-> calculateCaseStrength(p.assessedValue, p.estimatedMarketValue) ]

\* what the handler reports of the search: the requested and the effective
\* radius, and the queries it sent with the number of rows each returned
SearchReport(f, r, answers) ==
    [radius |-> f.radius, usedRadius |-> r, queried |-> f.queried, answers |-> answers]

\* querySFData resolves with records; tickAt is the first row for which
\* Date.now() has moved on (Len(records) + 1: the clock did not move)
FindCompsRespondIn(f, fNext, records, tickAt) ==
    /\ f # Null
    /\ LET r == f.radiiToTry[f.i]
           answers == Append(f.answers, Len(records))
           times == [i \in 1..Len(records) |-> IF i >= tickAt THEN now + 1 ELSE now]
           new == newComps(records, property, times)
           merged == MergeComps(comps, new)
       IN  IF records = <<>> /\ f.i < Len(f.radiiToTry)
           THEN \* next iteration of the loop: the next query is sent
                /\ fNext = [f EXCEPT !.i = f.i + 1,
                                    !.answers = answers,
                                    !.queried = Append(f.queried,
                                        CompsQuery(f.radiiToTry[f.i + 1], property))]
                /\ UNCHANGED <<comps, now, last>>
           ELSE IF records = <<>>
           THEN /\ fNext = Null
                /\ last' = EmptyOutcome(property, comps) @@ SearchReport(f, r, answers)
                /\ UNCHANGED <<comps, now>>
           ELSE /\ Len(merged) <= MaxComps
                /\ tickAt <= Len(records) => now < MaxClock
                /\ now' = IF tickAt <= Len(records) THEN now + 1 ELSE now
                /\ comps' = merged
                /\ fNext = Null
                /\ last' = Widget("find-comps", "", property, merged)
                            @@ SearchReport(f, r, answers)
                            @@ [records |-> records, found |-> Len(new)]
    /\ UNCHANGED <<property, argument, lk>>

FindCompsRespond(records, tickAt) ==
    FindCompsRespondIn(fc, fc', records, tickAt) /\ fc2' = fc2

\* the catch block dropping the comparables collected so far
FindCompsFailClearing ==
    /\ fc # Null
    /\ fc' = Null
    /\ last' = Error("find-comps", "", "SourceUnavailable")
    /\ comps' = <<>>
    /\ UNCHANGED <<property, argument, now, fc2, lk>>

\* the failed query sent once more
FindCompsFailRetrying ==
    /\ fc # Null
    /\ fc' = [fc EXCEPT !.queried = Append(fc.queried, fc.queried[Len(fc.queried)])]
    /\ UNCHANGED <<property, comps, argument, now, fc2, lk, last>>

\* querySFData throws (fetch rejects or the status is not ok)
FindCompsFailIn(f, fNext) ==
    /\ f # Null
    /\ fNext = Null
    /\ last' = Error("find-comps", "", "SourceUnavailable")
           @@ SearchReport(f, f.radiiToTry[f.i], f.answers)
    /\ UNCHANGED <<property, comps, argument, now, lk>>

FindCompsFail == FindCompsFailIn(fc, fc') /\ fc2' = fc2

----------------------------------------------------------------------------
(* The clock *)

Tick ==
    /\ now < MaxClock
    /\ now' = now + 1
    /\ UNCHANGED <<property, comps, argument, fc, fc2, lk, last>>

----------------------------------------------------------------------------
(* lookup-property *)

\* \w of a regular expression
IsWordChar(c) == IsLetter(c) \/ IsDigit(c) \/ c = "_"

\* \b between s[p - 1] and s[p]
WordBoundary(s, p) ==
    (p > 1 /\ p - 1 <= Len(s) /\ IsWordChar(s[p - 1])) # (p >= 1 /\ p <= Len(s) /\ IsWordChar(s[p]))

\* s.replace(/[#.,]/g, "")
StripPunctuation(s) == SelectSeq(s, LAMBDA c : c \notin {"#", ".", ","})

StrSan == <<"S", "A", "N">>
StrFrancisco == <<"F", "R", "A", "N", "C", "I", "S", "C", "O">>
StrSF == <<"S", "F">>
StrCA == <<"C", "A">>
StrCalifornia == <<"C", "A", "L", "I", "F", "O", "R", "N", "I", "A">>

\* the length /\b(SAN\s*FRANCISCO|SF|CA|CALIFORNIA)\b/ matches at position p, 0
\* for no match; the alternatives are tried in their order
CityMatchLen(s, p) ==
    LET spaces == Len(From(s, p + 3)) - Len(TrimLeft(From(s, p + 3)))
        san == IF MatchAt(s, StrSan, p) /\ MatchAt(s, StrFrancisco, p + 3 + spaces)
               THEN 3 + spaces + 9 ELSE 0
        alts == <<san,
                  IF MatchAt(s, StrSF, p) THEN 2 ELSE 0,
                  IF MatchAt(s, StrCA, p) THEN 2 ELSE 0,
                  IF MatchAt(s, StrCalifornia, p) THEN 10 ELSE 0>>
        good == {k \in 1..4 : alts[k] > 0 /\ WordBoundary(s, p + alts[k])}
    IN  IF ~WordBoundary(s, p) \/ good = {} THEN 0
        ELSE alts[CHOOSE k \in good : \A o \in good : k <= o]

\* the length /\b\d{5}(-\d{4})?\b/ matches at position p, 0 for no match
ZipMatchLen(s, p) ==
    LET five == p + 4 <= Len(s) /\ \A j \in 0..4 : IsDigit(s[p + j])
        plus4 == /\ p + 9 <= Len(s)
                 /\ s[p + 5] = "-"
                 /\ \A j \in 6..9 : IsDigit(s[p + j])
    IN  IF ~WordBoundary(s, p) \/ ~five THEN 0
        ELSE IF plus4 /\ WordBoundary(s, p + 10) THEN 10
        ELSE IF WordBoundary(s, p + 5) THEN 5
        ELSE 0

\* s.replace(/.../g, "") for the city and the zip expressions, from position p
RECURSIVE RemoveCity(_, _)
RemoveCity(s, p) ==
    IF p > Len(s) THEN <<>>
    ELSE IF CityMatchLen(s, p) > 0 THEN RemoveCity(s, p + CityMatchLen(s, p))
    ELSE <<s[p]>> \o RemoveCity(s, p + 1)

RECURSIVE RemoveZip(_, _)
RemoveZip(s, p) ==
    IF p > Len(s) THEN <<>>
    ELSE IF ZipMatchLen(s, p) > 0 THEN RemoveZip(s, p + ZipMatchLen(s, p))
    ELSE <<s[p]>> \o RemoveZip(s, p + 1)

\* s.split(/\s+/).filter(w => w.length > 0)
RECURSIVE SplitWords(_)
SplitWords(s) ==
    LET t == TrimLeft(s)
        ends == {i \in 1..Len(t) : IsSpace(t[i])}
        n == IF ends = {} THEN Len(t) ELSE (CHOOSE i \in ends : \A j \in ends : i <= j) - 1
    IN  IF t = <<>> THEN <<>>
        ELSE <<SubSeq(t, 1, n)>> \o SplitWords(From(t, n + 1))

SUFFIXES ==
    { <<"S", "T">>,
      <<"A", "V">>,
      <<"A", "V", "E">>,
      <<"B", "L", "V", "D">>,
      <<"D", "R">>,
      <<"C", "T">>,
      <<"P", "L">>,
      <<"W", "A", "Y">>,
      <<"L", "N">>,
      <<"R", "D">>,
      <<"T", "E", "R">>,
      <<"C", "I", "R">>,
      <<"H", "W", "Y">>,
      <<"S", "T", "R", "E", "E", "T">>,
      <<"A", "V", "E", "N", "U", "E">>,
      <<"D", "R", "I", "V", "E">>,
      <<"C", "O", "U", "R", "T">>,
      <<"P", "L", "A", "C", "E">>,
      <<"L", "A", "N", "E">>,
      <<"R", "O", "A", "D">> }

\* the words lookup-property searches for.  The ordinal replacement
\* (\d+)(ST|ND|RD|TH)\b -> "$1$2" writes back what it matched.
SearchWords(address) ==
    LET normalized == trim(StripPunctuation(toUpperCase(address)))
        cleaned == trim(RemoveZip(RemoveCity(normalized, 1), 1))
    IN  SelectSeq(SplitWords(cleaned), LAMBDA w : w \notin SUFFIXES)

LookupInputs ==
    { <<>>,
      [ address |-> <<"9", "9", "0", " ", "G", "r", "e", "e", "n", " ", "S", "t">> ],
      [ address |-> <<"9", "9", "0", " ", "G", "r", "e", "e", "n", " ", "S", "t">>, estimatedMarketValue |-> 450000 ],
      [ address |-> <<"S", "t", ",", " ", "S", "F", " ", "C", "A", " ", "9", "4", "1", "1", "5">> ],
      [ block |-> <<"0", "5", "9", "5">>, lot |-> <<"1", "3", "9">> ],
      [ block |-> <<"0", "5", "9", "5">> ] }

\* the handler up to its await: a call that is refused sends no query and
\* takes no frame; one that sends its query takes the frame, which is free
LookupStart(input) ==
    /\ IF ~TruthyStr(input, "address") /\ (~TruthyStr(input, "block") \/ ~TruthyStr(input, "lot"))
       THEN /\ last' = Error("lookup-property", "", "MissingQuery")
            /\ lk' = lk
       ELSE IF TruthyStr(input, "block") /\ TruthyStr(input, "lot")
       THEN /\ lk = Null
            /\ lk' = [ query |-> [block |-> input.block, lot |-> input.lot],
                       est |-> IF Has(input, "estimatedMarketValue")
                               THEN <<input.estimatedMarketValue>> ELSE <<>> ]
            /\ last' = Pending("lookup-property")
       ELSE IF SearchWords(input.address) = <<>>
       THEN /\ last' = Error("lookup-property", "", "UnparseableQuery")
            /\ lk' = lk
       ELSE /\ lk = Null
            /\ lk' = [ query |-> [words |-> SearchWords(input.address)],
                       est |-> IF Has(input, "estimatedMarketValue")
                               THEN <<input.estimatedMarketValue>> ELSE <<>> ]
            /\ last' = Pending("lookup-property")
    /\ UNCHANGED <<property, comps, argument, now, fc, fc2>>

\* the first candidate taken whenever there is one
PropertyAfterLookupFirst(p, records, est) ==
    IF Len(records) >= 1 THEN recordToProperty(records[1], est) ELSE p

\* state.property once the rows are in: replaced only by a single row
PropertyAfterLookup(p, records, est) ==
    IF Len(records) = 1 THEN recordToProperty(records[1], est) ELSE p

\* querySFData resolves with records
LookupRespond(records) ==
    /\ lk # Null
    /\ lk' = Null
    /\ IF Len(records) = 0
       THEN last' = [op |-> "lookup-property", action |-> "", res |-> "not-found"]
       ELSE IF Len(records) = 1
       THEN last' = [op |-> "lookup-property", action |-> "", res |-> "found"]
       ELSE last' = [ op |-> "lookup-property", action |-> "", res |-> "multiple",
                      options |-> [i \in 1..Len(records) |->
                                      recordToProperty(records[i], <<>>).apn] ]
    /\ property' = PropertyAfterLookup(property, records, lk.est)
    /\ UNCHANGED <<comps, argument, now, fc, fc2>>

\* querySFData throws
LookupFail ==
    /\ lk # Null
    /\ lk' = Null
    /\ last' = Error("lookup-property", "", "SourceUnavailable")
    /\ UNCHANGED <<property, comps, argument, now, fc, fc2>>

----------------------------------------------------------------------------
(* check-eligibility *)

ELIGIBLE_TYPES == {"sfh", "condo", "townhouse", "live-work", "co-op"}

\* month is Date.getMonth() (0 for January), day is Date.getDate()
isFilingWindowOpen(month, day) ==
    IF month = 0 /\ day >= 2 THEN TRUE
    ELSE IF month = 1 THEN TRUE
    ELSE IF month = 2 THEN TRUE
    ELSE FALSE

\* the dates the handler may run on, as <<month, day>>
Dates == {<<0, 1>>, <<0, 2>>, <<2, 31>>, <<3, 1>>}

\* the zod schema admits the five property types and positive values
ValueInputs ==
    {100, 425000, 425001, 460000, 475000, 475001, 490000, 500000, 520000, 1000000}

\* the values checked written into the active property
CheckEligibilityStoring(propertyType, assessedValue, estimatedMarketValue, today) ==
    /\ last' = [ op |-> "check-eligibility", action |-> "", res |-> "ok",
                 assessedValue |-> assessedValue,
                 estimatedMarketValue |-> estimatedMarketValue,
                 eligible |-> propertyType \in ELIGIBLE_TYPES,
                 windowOpen |-> isFilingWindowOpen(today[1], today[2]),
                 strength |-> calculateCaseStrength(assessedValue, estimatedMarketValue),
                 gap |-> assessedValue - estimatedMarketValue ]
    /\ property' = IF property = Null THEN property
                   ELSE [property EXCEPT !.assessedValue = assessedValue,
                                         !.estimatedMarketValue = estimatedMarketValue]
    /\ UNCHANGED <<comps, argument, now, fc, fc2, lk>>

CheckEligibility(propertyType, assessedValue, estimatedMarketValue, today) ==
    /\ last' = [ op |-> "check-eligibility", action |-> "", res |-> "ok",
                 assessedValue |-> assessedValue,
                 estimatedMarketValue |-> estimatedMarketValue,
                 eligible |-> propertyType \in ELIGIBLE_TYPES,
                 windowOpen |-> isFilingWindowOpen(today[1], today[2]),
                 strength |-> calculateCaseStrength(assessedValue, estimatedMarketValue),
                 gap |-> assessedValue - estimatedMarketValue ]
    /\ UNCHANGED <<property, comps, argument, now, fc, fc2, lk>>

----------------------------------------------------------------------------
(* get-submission-info *)

\* the guide is fixed text but for the status of the filing window
GetSubmissionInfo(today) ==
    /\ last' = [ op |-> "get-submission-info", action |-> "", res |-> "ok",
                 windowOpen |-> isFilingWindowOpen(today[1], today[2]) ]
    /\ UNCHANGED <<property, comps, argument, now, fc, fc2, lk>>

----------------------------------------------------------------------------
(* generate-argument *)

\* 2^e modulo 125, e in 0..59: 2^20 is 76 modulo 125
PowerOfTwoMod125(e) == (((2 ^ (e % 20)) % 125) * ((76 ^ (e \div 20)) % 125)) % 125

\* the binary exponent of the double nearest to n / 2000, n >= 1:
\* floor(log2(n / 2000))
Exponent2000(n) ==
    IF n >= 2000
    THEN CHOOSE e \in 0..21 : 2 ^ e <= n \div 2000 /\ n \div 2000 < 2 ^ (e + 1)
    ELSE 0 - (CHOOSE j \in 1..11 : n * 2 ^ j >= 2000 /\ n * 2 ^ (j - 1) < 2000)

\* Whether the double (x * 100) is at least n / 20, where x is the double
\* nearest to n / 2000 and n is odd: the case in which the exact quotient
\* lies half-way between two tenths, and the rounding of the division and of
\* the multiplication decides which of them toFixed prints.  With E the
\* exponent of x, the significand M of x is (n * 2^(48 - E) + d1) / 125 for
\* the d1 nearest to 0 that makes it an integer; 25 * M is then rounded to 53
\* bits by dropping its t lowest bits, which adds d2; the product lies above
\* or below n / 20 as d1 + 5 * d2 is positive or negative.
TieRoundsUp(n) ==
    LET E == Exponent2000(n)
        R == ((n % 125) * PowerOfTwoMod125(48 - E)) % 125
        d1 == IF R <= 62 THEN 0 - R ELSE 125 - R
        \* 25 * M modulo 64: 125 * 21 = 1 modulo 64 and n * 2^(48 - E) = 0
        W == (13 * (((d1 % 64) + 64) % 64)) % 64
        \* 25 * M < 2^57
        below == IF E >= 0 THEN n \div (2 ^ E) < 2560
                 ELSE \/ n * 2 ^ (0 - E) < 2560
                      \/ n * 2 ^ (0 - E) = 2560 /\ d1 < 0
        t == IF below THEN 4 ELSE 5
        L == W % (2 ^ t)
        half == 2 ^ (t - 1)
        odd == (W \div (2 ^ t)) % 2 = 1
        \* round to nearest, ties to even
        d2 == IF L < half \/ (L = half /\ ~odd) THEN 0 - L ELSE 2 ^ t - L
    IN  d1 + 5 * d2 >= 0

\* ((gap / assessedValue) * 100).toFixed(1), in tenths of a percent: the
\* tenth nearest to the double the expression evaluates to and, of two tenths
\* equally near, the one further from zero.  A negative value that rounds to
\* zero prints "-0.0"; a division by zero prints NaN or an infinity.  The
\* quotient is divided out digit by digit (|assessedValue| < 2^31 / 10).
toFixed1(gap, assessedValue) ==
    IF assessedValue = 0
    THEN IF gap > 0 THEN <<"Infinity", 0>>
         ELSE IF gap < 0 THEN <<"-Infinity", 0>>
         ELSE <<"NaN", 0>>
    ELSE LET g == Abs(gap)
             a == Abs(assessedValue)
             negative == gap # 0 /\ ((gap < 0) # (assessedValue < 0))
             r0 == g % a
             r1 == (10 * r0) % a
             r2 == (10 * r1) % a
             r3 == (10 * r2) % a
             floor == ((((g \div a) * 10 + (10 * r0) \div a) * 10
                          + (10 * r1) \div a) * 10) + (10 * r2) \div a
             magnitude == IF 2 * r3 > a THEN floor + 1
                          ELSE IF 2 * r3 < a THEN floor
                          ELSE IF TieRoundsUp(2 * floor + 1) THEN floor + 1
                          ELSE floor
         IN  IF negative /\ magnitude = 0 THEN <<"-0.0", 0>>
             ELSE IF negative THEN <<"number", 0 - magnitude>>
             ELSE <<"number", magnitude>>

\* the lines numbered from 0
compLineFromZero(c, i) ==
    [ n |-> i - 1, address |-> c.address, saleDate |-> c.saleDate, salePrice |-> c.salePrice,
      sqft |-> c.sqft, beds |-> c.beds, baths |-> c.baths, distance |-> c.distance,
      notes |-> c.notes ]

\* one line of compLines: its number and the fields it prints
compLine(c, i) ==
    [ n |-> i, address |-> c.address, saleDate |-> c.saleDate, salePrice |-> c.salePrice,
      sqft |-> c.sqft, beds |-> c.beds, baths |-> c.baths, distance |-> c.distance,
      notes |-> c.notes ]

\* the narrative text, as the values it prints in each tone
Narrative(tone, p, included, declared) ==
    LET gapPct == toFixed1(p.assessedValue - declared, p.assessedValue)
        compLines == [i \in 1..Len(included) |-> compLine(included[i], i)]
    IN  IF tone = "formal"
        THEN [ tone |-> tone, address |-> p.address, apn |-> p.apn, type |-> p.type,
               assessedValue |-> p.assessedValue, declared |-> declared,
               count |-> Len(included), gapPct |-> gapPct, compLines |-> compLines ]
        ELSE IF tone = "concise"
        THEN [ tone |-> tone, address |-> p.address, apn |-> p.apn,
               assessedValue |-> p.assessedValue, declared |-> declared,
               gapPct |-> gapPct, compLines |-> compLines ]
        ELSE [ tone |-> tone, address |-> p.address, apn |-> p.apn,
               assessedValue |-> p.assessedValue, declared |-> declared,
               gapPct |-> gapPct, compLines |-> compLines,
               average |-> RoundDiv(SumPrice(included), Len(included)) ]

\* the zod schema: tone defaults to neutral, declaredMarketValue is an optional
\* positive number (<<>> when omitted, <<v>> when given)
Tones == {"formal", "neutral", "concise"}

\* the declared values given: none, and one whose gap to an assessed value of
\* 500000 is 9.85 percent, half-way between two tenths
DeclaredInputs == {<<>>, <<450750>>}

\* the default taken from every comparable, included or not
GenerateArgumentFromAll(tone, declaredMarketValue) ==
    LET included == Included(comps) IN
    /\ IF property = Null
       THEN /\ last' = Error("generate-argument", "", "NoActiveProperty")
            /\ argument' = argument
       ELSE IF Len(included) = 0
       THEN /\ last' = Error("generate-argument", "", "NoIncludedComparables")
            /\ argument' = argument
       ELSE LET declared == IF declaredMarketValue # <<>> THEN declaredMarketValue[1]
                            ELSE RoundDiv(SumPrice(comps), Len(comps))
                narrative == Narrative(tone, property, included, declared)
            IN  /\ argument' = [ narrative |-> narrative, declaredMarketValue |-> declared,
                                 tone |-> tone ]
                /\ last' = [ op |-> "generate-argument", action |-> "", res |-> "ok",
                             given |-> declaredMarketValue, narrative |-> narrative ]
    /\ UNCHANGED <<property, comps, now, fc, fc2, lk>>

GenerateArgument(tone, declaredMarketValue) ==
    LET included == Included(comps) IN
    /\ IF property = Null
       THEN /\ last' = Error("generate-argument", "", "NoActiveProperty")
            /\ argument' = argument
       ELSE IF Len(included) = 0
       THEN /\ last' = Error("generate-argument", "", "NoIncludedComparables")
            /\ argument' = argument
       ELSE LET declared == IF declaredMarketValue # <<>> THEN declaredMarketValue[1]
                            ELSE RoundDiv(SumPrice(included), Len(included))
                narrative == Narrative(tone, property, included, declared)
            IN  /\ argument' = [ narrative |-> narrative, declaredMarketValue |-> declared,
                                 tone |-> tone ]
                /\ last' = [ op |-> "generate-argument", action |-> "", res |-> "ok",
                             given |-> declaredMarketValue, narrative |-> narrative ]
    /\ UNCHANGED <<property, comps, now, fc, fc2, lk>>

----------------------------------------------------------------------------
(* generate-packet and export-packet *)

StrDash == <<"-">>

\* one row of the comparable table: its cells
compRow(c) ==
    <<c.address, c.saleDate, c.salePrice, c.sqft, <<c.beds, c.baths>>, c.distance,
      IF c.notes # <<>> THEN c.notes ELSE StrDash>>

\* buildPacketMarkdown: the document as the values it prints; the optional
\* lines are absent when .filter(Boolean) drops them
buildPacketMarkdown(p, included, arg, caseStrength, avgCompPrice, windowOpen) ==
    LET gap == p.assessedValue - arg.declaredMarketValue IN
    [ address |-> p.address, apn |-> p.apn, type |-> p.type,
      assessedValue |-> p.assessedValue,
      declaredMarketValue |-> arg.declaredMarketValue,
      gap |-> gap, gapPct |-> toFixed1(gap, p.assessedValue),
      caseStrength |-> caseStrength,
      compRows |-> [i \in 1..Len(included) |-> compRow(included[i])],
      avgCompPrice |-> avgCompPrice,
      narrative |-> arg.narrative,
      windowOpen |-> windowOpen ]
    @@ Field("neighborhood", TruthyStr(p, "neighborhood"), OrElse(p, "neighborhood", <<>>))
    @@ Field("sqft", TruthyNum(p, "sqft"), OrElse(p, "sqft", 0))
    @@ Field("bedsBaths", TruthyNum(p, "beds"),
             <<OrElse(p, "beds", 0), IF Has(p, "baths") THEN <<p.baths>> ELSE <<>> >>)

\* generate-packet: the response of the handler.  The three early returns,
\* then avgCompPrice, caseStrength and packetMd, returned as the output of a
\* widget whose props repeat the parts.  The handler reads the clock twice:
\* today is the <<month, day>> read while the document is built, later the
\* <<month, day>> read afterwards for the filingWindowOpen of the props.
\* The kind of an error names the test that refused; the wording of the
\* message is the handler's own.
GeneratePacketResponse(today, later) ==
    IF property = Null THEN Error("generate-packet", "", "NoActiveProperty")
    ELSE
    LET included == Included(comps) IN
    IF Len(included) = 0 THEN Error("generate-packet", "", "NoIncludedComparables")
    ELSE IF argument = Null THEN Error("generate-packet", "", "NoArgument")
    ELSE
    LET avgCompPrice == RoundDiv(SumPrice(included), Len(included))
        caseStrength == calculateCaseStrength(property.assessedValue,
                                              argument.declaredMarketValue)
        packetMd == buildPacketMarkdown(property, included, argument, caseStrength,
                                        avgCompPrice,
                                        isFilingWindowOpen(today[1], today[2]))
    IN  [ op |-> "generate-packet", action |-> "", res |-> "ok",
          props |-> [ property |-> property, comps |-> included,
                      argument |-> argument, caseStrength |-> caseStrength,
                      avgCompPrice |-> avgCompPrice,
                      filingWindowOpen |-> isFilingWindowOpen(later[1], later[2]) ],
          packet |-> packetMd ]

\* export-packet: the response of the handler.  Its own three early returns,
\* its own avgCompPrice and caseStrength; the document is returned as it is.
ExportPacketResponse(today) ==
    IF property = Null THEN Error("export-packet", "", "NoActiveProperty")
    ELSE
    LET included == Included(comps) IN
    IF Len(included) = 0 THEN Error("export-packet", "", "NoIncludedComparables")
    ELSE IF argument = Null THEN Error("export-packet", "", "NoArgument")
    ELSE
    LET avgCompPrice == RoundDiv(SumPrice(included), Len(included))
        caseStrength == calculateCaseStrength(property.assessedValue,
                                              argument.declaredMarketValue)
    IN  [ op |-> "export-packet", action |-> "", res |-> "ok",
          packet |-> buildPacketMarkdown(property, included, argument, caseStrength,
                                         avgCompPrice,
                                         isFilingWindowOpen(today[1], today[2])) ]

\* a refusal that also discards the argument
GeneratePacketResetting(today, later) ==
    /\ last' = GeneratePacketResponse(today, later)
    /\ argument' = IF GeneratePacketResponse(today, later).res = "error"
                   THEN Null ELSE argument
    /\ UNCHANGED <<property, comps, now, fc, fc2, lk>>

\* a preview that tabulates every comparable, included or not
GeneratePacketOfAllComps(today, later) ==
    /\ last' = IF GeneratePacketResponse(today, later).res = "error"
               THEN GeneratePacketResponse(today, later)
               ELSE [ GeneratePacketResponse(today, later) EXCEPT
                        !.packet.compRows = [i \in 1..Len(comps) |-> compRow(comps[i])] ]
    /\ UNCHANGED <<property, comps, argument, now, fc, fc2, lk>>

\* an export that tabulates every comparable, included or not
ExportPacketOfAllComps(today) ==
    /\ last' = IF ExportPacketResponse(today).res = "error"
               THEN ExportPacketResponse(today)
               ELSE [ ExportPacketResponse(today) EXCEPT
                        !.packet.compRows = [i \in 1..Len(comps) |-> compRow(comps[i])] ]
    /\ UNCHANGED <<property, comps, argument, now, fc, fc2, lk>>

GeneratePacket(today, later) ==
    /\ last' = GeneratePacketResponse(today, later)
    /\ UNCHANGED <<property, comps, argument, now, fc, fc2, lk>>

ExportPacket(today) ==
    /\ last' = ExportPacketResponse(today)
    /\ UNCHANGED <<property, comps, argument, now, fc, fc2, lk>>

----------------------------------------------------------------------------
(* Specifications.  A tool call is served whenever it arrives, also while    *)
(* a find-comps or lookup-property call is suspended on the record source. *)

Init ==
    /\ property = Null
    /\ comps = <<>>
    /\ argument = Null
    /\ now = 0
    /\ fc = Null
    /\ fc2 = Null
    /\ lk = Null
    /\ last = [op |-> "", action |-> "", res |-> ""]

CallCompsAdd == \E comp \in AddPayloads : ManageComps("add", comp)

CallCompsUpdate == \E comp \in IdPayloads(UpdateFields) : ManageComps("update", comp)

CallCompsRemove == \E comp \in IdPayloads({<<>>}) : ManageComps("remove", comp)

CallCompsToggle == \E comp \in IdPayloads({<<>>}) : ManageComps("toggle", comp)

CallCompsList == \E comp \in ListPayloads : ManageComps("list", comp)

\* a manual add of a payload the handler accepts
CallAddComp == ManageComps("add", GoodComp)

CallManageProperty == \E input \in PropertyInputs : ManageProperty(input)

CallFindComps == \E radius \in RadiusInputs : FindCompsStart(radius)

CallLookupProperty == \E input \in LookupInputs : LookupStart(input)

SourceRespondsToFindComps ==
    \E records \in CompsResponses : \E tickAt \in 1..(Len(records) + 1) :
        /\ fc # Null
        /\ ExcludesParcel(records, fc.queried[Len(fc.queried)].apn)
        /\ FindCompsRespond(records, tickAt)

SourceRespondsToLookup == \E records \in LookupResponses : LookupRespond(records)

CallCheckEligibility ==
    /\ \E propertyType \in PropertyTypes, a \in ValueInputs, e \in ValueInputs, today \in Dates :
           CheckEligibility(propertyType, a, e, today)

\* curating the comparable list by hand
NextCurate ==
    \/ CallManageProperty
    \/ CallCompsAdd
    \/ CallCompsUpdate
    \/ CallCompsRemove
    \/ CallCompsToggle
    \/ CallCompsList
    \/ Tick

SpecCurate == Init /\ [][NextCurate]_vars

\* resolving the subject property: every lookup input, every response
NextLookup ==
    \/ CallLookupProperty
    \/ SourceRespondsToLookup
    \/ LookupFail
    \/ CallManageProperty
    \/ Tick

SpecLookup == Init /\ [][NextLookup]_vars

\* scoring
NextStrength == CallCheckEligibility

SpecStrength == Init /\ [][NextStrength]_vars

\* manual adds of sales the handler accepts
SalePayloads(prices) == { [salePrice |-> v] @@ GoodComp : v \in prices }

AddSalePayloads == SalePayloads({900000, 1000000})

AddOddSalePayloads == SalePayloads({900000, 1000000, 1000001})

\* sale prices of every sign
PricePayloads == SalePayloads({490000, 0, -1})

UpdatePrices == {520000, 0}

CallAddSale ==
    \E comp \in AddSalePayloads : ManageComps("add", comp)

\* the mean of 900000 and 1000001 is not a whole number
CallAddOddSale ==
    \E comp \in AddOddSalePayloads : ManageComps("add", comp)

\* the dates the clock is read on: the window open, the window closed.  Two
\* readings of one call are drawn independently: a day may end between them.
PacketDates == {<<0, 2>>, <<3, 1>>}

CallGenerateArgument ==
    \E tone \in Tones, d \in DeclaredInputs : GenerateArgument(tone, d)

CallGeneratePacket ==
    \E today \in PacketDates, later \in PacketDates : GeneratePacket(today, later)

CallExportPacket == \E today \in PacketDates : ExportPacket(today)

\* drafting the argument and building the packet
NextPacket ==
    \/ CallManageProperty
    \/ CallAddSale
    \/ CallCompsToggle
    \/ CallGenerateArgument
    \/ CallGeneratePacket
    \/ CallExportPacket
    \/ Tick

SpecPacket == Init /\ [][NextPacket]_vars

\* drafting the argument
NextArgument ==
    \/ CallManageProperty
    \/ CallAddOddSale
    \/ CallCompsToggle
    \/ CallGenerateArgument
    \/ Tick

SpecArgument == Init /\ [][NextArgument]_vars

\* every tool that can report an error, each called with a few inputs
CaseLookupInputs ==
    {input \in LookupInputs : ~Has(input, "block") /\ ~Has(input, "estimatedMarketValue")}

CaseLookup == \E input \in CaseLookupInputs : LookupStart(input)

\* a radius whose ladder has two rungs, 1.5 and 2.0 miles
CaseFindComps == FindCompsStart(150)

\* the responses of the record source: no row, one row
CaseResponses == {<<>>, <<RowGreen>>}

CaseSourceResponds ==
    \E records \in CaseResponses :
        /\ fc # Null
        /\ ExcludesParcel(records, fc.queried[Len(fc.queried)].apn)
        /\ FindCompsRespond(records, Len(records) + 1)

CaseAdd ==
    \E comp \in CaseAddPayloads : ManageComps("add", comp)

\* an update that names an id no comparable has
CaseUpdate == ManageComps("update", StrangerUpdate)

\* a remove that names an id no comparable has
CaseRemove == ManageComps("remove", StrangerPayload)

\* a toggle that names an id no comparable has
CaseToggle == ManageComps("toggle", StrangerPayload)

CaseArgument == GenerateArgument("neutral", <<>>)

CaseGeneratePacket == \E later \in PacketDates : GeneratePacket(<<0, 2>>, later)

CaseExportPacket == ExportPacket(<<0, 2>>)

NextCase ==
    \/ CaseLookup
    \/ SourceRespondsToLookup
    \/ LookupFail
    \/ CaseFindComps
    \/ CaseSourceResponds
    \/ FindCompsFail
    \/ CaseAdd
    \/ CaseUpdate
    \/ CaseRemove
    \/ CaseToggle
    \/ CaseArgument
    \/ CaseGeneratePacket
    \/ CaseExportPacket

SpecCase == Init /\ [][NextCase]_vars

\* parseAddress on raw addresses of the positional format of property_location:
\* four digits of primary number, four digits of secondary number, the street
\* name, padding, the suffix and four digits of unit code
DocumentedAddresses ==
    [ primary : {<<"0", "0", "0", "0">>, <<"0", "5", "6", "0">>},
      secondary : {<<"0", "9", "9", "0">>, <<"1", "6", "2", "5">>},
      name : { <<"G", "R", "E", "E", "N">>,
               <<"P", "A", "C", "I", "F", "I", "C">>,
               <<"M", "A", "R", "K", "E", "T">>,
               <<"C", "A", "S", "T", "R", "O">>,
               <<"S", "T", "O", "C", "K", "T", "O", "N">>,
               <<"D", "R", "U", "M", "M">> },
      padding : {1, 3},
      suffix : {<<"S", "T">>, <<"A", "V">>, <<"A", "V", "E">>, <<"B", "L", "V", "D">>, <<"W", "A", "Y">>},
      unit : {<<"0", "0", "0", "0">>, <<"0", "0", "0", "7">>} ]

RawAddress(a) ==
    a.primary \o <<" ">> \o a.secondary \o <<" ">> \o a.name
        \o [i \in 1..a.padding |-> " "] \o a.suffix \o a.unit

InitAddress ==
    /\ property = Null
    /\ comps = <<>>
    /\ argument = Null
    /\ now = 0
    /\ fc = Null
    /\ fc2 = Null
    /\ lk = Null
    /\ \E a \in DocumentedAddresses :
          last = [op |-> "parseAddress", action |-> "", res |-> "raw", input |-> a]

ParseAddressStep ==
    /\ last.res = "raw"
    /\ last' = [ op |-> "parseAddress", action |-> "", res |-> "parsed",
                 input |-> last.input, out |-> parseAddress(RawAddress(last.input)) ]
    /\ UNCHANGED <<property, comps, argument, now, fc, fc2, lk>>

SpecAddress == InitAddress /\ [][ParseAddressStep]_vars

\* every operation that assigns to the case, on a case that can have an
\* argument
FrameLookup ==
    LookupStart(GreenStreetInput)

FrameLookupResponds == LookupRespond(<<RowPacific>>)

FrameManageProperty ==
    \E input \in SizedPropertyInputs : ManageProperty(input)

\* a radius whose ladder has one rung, 2.0 miles
FrameFindComps == FindCompsStart(200)

FrameSourceResponds ==
    \E records \in CaseResponses :
        /\ fc # Null
        /\ FindCompsRespond(records, Len(records) + 1)

\* a good payload with a distance
FarComp ==
    [ address |-> GoodComp.address, saleDate |-> GoodComp.saleDate,
      salePrice |-> GoodComp.salePrice, distance |-> 25 ]

FrameAdd == ManageComps("add", FarComp)

\* remove and toggle of a comparable of the list
RemovalCurate ==
    \E i \in 1..Len(comps) :
        \/ ManageComps("remove", [id |-> comps[i].id])
        \/ ManageComps("toggle", [id |-> comps[i].id])

\* update, remove and toggle of a comparable of the list
FrameMutate ==
    \E i \in 1..Len(comps) :
          \/ ManageComps("update", [id |-> comps[i].id, salePrice |-> 520000])
          \/ ManageComps("remove", [id |-> comps[i].id])
          \/ ManageComps("toggle", [id |-> comps[i].id])

FrameArgument == GenerateArgument("formal", <<>>)

NextFrame ==
    \/ FrameManageProperty
    \/ FrameLookup
    \/ FrameLookupResponds
    \/ FrameFindComps
    \/ FrameSourceResponds
    \/ FrameAdd
    \/ FrameMutate
    \/ FrameArgument

SpecFrame == Init /\ [][NextFrame]_vars

\* searching the record source from every requested radius, while lookups and
\* manage-property calls are served in between the queries
NextSearch ==
    \/ FrameLookup
    \/ FrameLookupResponds
    \/ LookupFail
    \/ FrameManageProperty
    \/ CallFindComps
    \/ CaseSourceResponds
    \/ FindCompsFail

SpecSearch == Init /\ [][NextSearch]_vars

\* every response of the record source merged into a list that manual adds
\* extend in between the queries
NextRows ==
    \/ FrameLookup
    \/ FrameLookupResponds
    \/ CaseFindComps
    \/ SourceRespondsToFindComps
    \/ CallAddComp
    \/ Tick

SpecRows == Init /\ [][NextRows]_vars

\* the operations that assign to the property or to the comparable list
NextMerge ==
    \/ FrameManageProperty
    \/ FrameLookup
    \/ FrameLookupResponds
    \/ CaseFindComps
    \/ FrameSourceResponds
    \/ FrameAdd
    \/ FrameMutate

SpecMerge == Init /\ [][NextMerge]_vars

\* mapPropertyType on class texts made of one or two of the words the record
\* source uses, as written and in upper case; <<>> is also what a missing
\* class text is turned into
ClassWords ==
    { <<>>,
      <<"C", "o", "n", "d", "o", "m", "i", "n", "i", "u", "m">>,
      <<"L", "i", "v", "e", "/", "W", "o", "r", "k">>,
      <<"T", "o", "w", "n", " ", "H", "o", "u", "s", "e">>,
      <<"C", "o", "o", "p">>,
      <<"C", "o", "-", "o", "p">>,
      <<"F", "l", "a", "t">>,
      <<"D", "u", "p", "l", "e", "x">>,
      <<"D", "w", "e", "l", "l", "i", "n", "g">>,
      <<"P", "U", "D">> }

ClassTexts ==
    LET joined == {IF a = <<>> \/ b = <<>> THEN a \o b ELSE a \o <<" ">> \o b :
                      a \in ClassWords, b \in ClassWords}
    IN  joined \cup {toUpperCase(t) : t \in joined}

InitClass ==
    /\ property = Null
    /\ comps = <<>>
    /\ argument = Null
    /\ now = 0
    /\ fc = Null
    /\ fc2 = Null
    /\ lk = Null
    /\ \E t \in ClassTexts :
          last = [op |-> "mapPropertyType", action |-> "", res |-> "raw", input |-> t]

MapPropertyTypeStep ==
    /\ last.res = "raw"
    /\ last' = [ op |-> "mapPropertyType", action |-> "", res |-> "mapped",
                 input |-> last.input, out |-> mapPropertyType(last.input) ]
    /\ UNCHANGED <<property, comps, argument, now, fc, fc2, lk>>

SpecClass == InitClass /\ [][MapPropertyTypeStep]_vars

\* sale prices of every sign, through add, update and the rows of find-comps
PriceAdd ==
    \E comp \in PricePayloads : ManageComps("add", comp)

PriceUpdate ==
    /\ \E i \in 1..Len(comps), v \in UpdatePrices :
          ManageComps("update", [id |-> comps[i].id, salePrice |-> v])

PriceResponses == {<<>>, <<RowZero>>, <<RowZero, RowGreen>>}

PriceSourceResponds ==
    \E records \in PriceResponses :
        /\ fc # Null
        /\ FindCompsRespond(records, Len(records) + 1)

NextPrice ==
    \/ FrameLookup
    \/ FrameLookupResponds
    \/ CaseFindComps
    \/ PriceSourceResponds
    \/ PriceAdd
    \/ PriceUpdate
    \/ Tick

SpecPrice == Init /\ [][NextPrice]_vars

\* handlers interleaved at the await of find-comps: while a find-comps call
\* is suspended on the record source, lookup-property and manage-property
\* calls are served
RaceLookup ==
    LookupStart(GreenStreetInput)

RaceLookupResponses == {<<RowGreen>>, <<RowPacific>>}

RaceLookupResponds == \E records \in RaceLookupResponses : LookupRespond(records)

RaceManageProperty ==
    \E input \in SizedPropertyInputs : ManageProperty(input)

RaceResponses == {<<>>, <<RowGreen>>, <<RowPacific>>}

\* the rows answer the query that was sent, whatever the property is by now
RaceSourceResponds ==
    \E records \in RaceResponses :
        /\ fc # Null
        /\ ExcludesParcel(records, fc.queried[Len(fc.queried)].apn)
        /\ FindCompsRespond(records, Len(records) + 1)

NextRace ==
    \/ RaceLookup
    \/ RaceLookupResponds
    \/ RaceManageProperty
    \/ FindCompsStart(150)
    \/ RaceSourceResponds
    \/ FrameMutate

SpecRace == Init /\ [][NextRace]_vars

----------------------------------------------------------------------------
(* Two find-comps invocations in flight at once.  A handler runs without    *)
(* interruption between two awaits and the only await of find-comps is the  *)
(* call of querySFData, so each invocation is a sequence of atomic steps:   *)
(* up to the first query, from one answer to the next query, and from the   *)
(* last answer to the return.  manage-comps has no await and is one step,   *)
(* which may fall between any two steps of the invocations in flight.       *)

\* responses that list each parcel at most once
ConcurrentResponses == {<<>>, <<RowGreen>>, <<RowGreenAgain>>}

ConcurrentStartFirst == FindCompsStart(150)

ConcurrentStartSecond == FindCompsStartIn(fc2, fc2', 150) /\ fc' = fc

ConcurrentRespondFirst ==
    \E records \in ConcurrentResponses :
        /\ fc # Null
        /\ ExcludesParcel(records, fc.queried[Len(fc.queried)].apn)
        /\ FindCompsRespond(records, Len(records) + 1)

ConcurrentRespondSecond ==
    \E records \in ConcurrentResponses :
        /\ fc2 # Null
        /\ ExcludesParcel(records, fc2.queried[Len(fc2.queried)].apn)
        /\ FindCompsRespondIn(fc2, fc2', records, Len(records) + 1)
        /\ fc' = fc

\* manage-comps add, remove and toggle, whatever is in flight
ConcurrentCurate ==
    \/ ManageComps("add", GoodComp)
    \/ \E i \in 1..Len(comps) :
          \/ ManageComps("remove", [id |-> comps[i].id])
          \/ ManageComps("toggle", [id |-> comps[i].id])

NextConcurrent ==
    \/ FrameLookup
    \/ FrameLookupResponds
    \/ ConcurrentStartFirst
    \/ ConcurrentStartSecond
    \/ ConcurrentRespondFirst
    \/ ConcurrentRespondSecond
    \/ ConcurrentCurate

SpecConcurrent == Init /\ [][NextConcurrent]_vars

----------------------------------------------------------------------------
(* Searching, removing and searching again.  The subject is parcel B2 and   *)
(* the record source knows one other parcel, A1: the only comparable the    *)
(* list ever holds is comp-A1, and a successful remove has removed it.      *)

NextRemoval ==
    \/ FrameLookup
    \/ FrameLookupResponds
    \/ CallFindComps
    \/ CaseSourceResponds
    \/ FindCompsFail
    \/ RemovalCurate
    \/ Tick

\* a query find-comps has sent settles: fetch resolves or rejects, and the
\* handler awaiting it is resumed
SpecRemoval ==
    /\ Init
    /\ [][NextRemoval]_vars
    /\ WF_vars(CaseSourceResponds \/ FindCompsFail)

----------------------------------------------------------------------------
(* The operations that only read the case, on a case being built *)

ReadEstimates == {425000, 1000000}

ReadCheckEligibility ==
    /\ \E e \in ReadEstimates, today \in PacketDates :
           CheckEligibility("sfh", 1000000, e, today)

ReadSubmissionInfo == \E today \in PacketDates : GetSubmissionInfo(today)

NextReadOnly ==
    \/ FrameManageProperty
    \/ CallAddSale
    \/ CallCompsToggle
    \/ FrameArgument
    \/ ReadCheckEligibility
    \/ ReadSubmissionInfo
    \/ CallGeneratePacket
    \/ CallExportPacket
    \/ CallCompsList

SpecReadOnly == Init /\ [][NextReadOnly]_vars

----------------------------------------------------------------------------
(* Properties of the comparable list and of find-comps *)

Ids(cs) == {cs[i].id : i \in 1..Len(cs)}

\* C1: no two comparables of the list share an identifier, however the list
\* was built (find-comps runs, manual adds, or both).
UniqueIds ==
    \A i, j \in 1..Len(comps) : comps[i].id = comps[j].id => i = j

\* C2: running find-comps again on a case it has just completed on, with the
\* same record-source response, adds no comparable: merging the mapped
\* response into the list once more leaves the list as it is.
FindCompsIdempotent ==
    (last.op = "find-comps" /\ last.res = "ok")
        => \A t \in now..MaxClock :
              MergeComps(comps, newComps(last.records, property,
                                         [i \in 1..Len(last.records) |-> t])) = comps

IsAscending(rs) == \A k \in 1..(Len(rs) - 1) : rs[k] < rs[k + 1]

QueriedRadii(f) == [k \in 1..Len(f.queried) |-> f.queried[k].r]

\* C3: the radii find-comps queries start at the requested radius and strictly
\* increase; a further radius is queried only after every earlier one returned
\* zero rows; the search stops at the first radius that returns a row, which
\* is the effective radius it reports.
RadiusExpansion ==
    /\ fc # Null =>
          /\ Len(fc.queried) = Len(fc.answers) + 1
          /\ QueriedRadii(fc)[1] = fc.radius
          /\ IsAscending(QueriedRadii(fc))
          /\ \A k \in 1..Len(fc.answers) : fc.answers[k] = 0
    /\ (last.op = "find-comps" /\ last.res = "ok") =>
          /\ Len(last.queried) = Len(last.answers)
          /\ QueriedRadii(last)[1] = last.radius
          /\ IsAscending(QueriedRadii(last))
          /\ \A k \in 1..(Len(last.answers) - 1) : last.answers[k] = 0
          /\ last.answers[Len(last.answers)] > 0
          /\ last.usedRadius = QueriedRadii(last)[Len(last.queried)]
          /\ \A k \in 1..Len(last.queried) : QueriedRadii(last)[k] <= last.usedRadius

\* 0.5 and 0.75 miles came back empty and 1.0 mile did not
RadiusExpansionWitness ==
    /\ last.op = "find-comps" /\ last.res = "ok"
    /\ last.radius = 50 /\ last.usedRadius = 100
    /\ last.answers[1] = 0 /\ last.answers[2] = 0 /\ last.answers[3] > 0

\* C4: a find-comps call made with no active property fails with
\* NoActiveProperty, and one made for a property without latitude or
\* longitude fails with MissingCoordinates; either way no query is sent (the
\* invocations in flight are those there were) and the property, the
\* comparable list and the argument stay as they were.
FindCompsPreconditions ==
    [][ (last'.op = "find-comps") =>
        \A radius \in RadiusInputs :
          FindCompsStart(radius) =>
             /\ property = Null =>
                   /\ last'.res = "error" /\ last'.error = "NoActiveProperty"
                   /\ fc' = fc
                   /\ UNCHANGED <<property, comps, argument>>
             /\ (property # Null /\ ~({"lat", "lng"} \subseteq DOMAIN property)) =>
                   /\ last'.res = "error" /\ last'.error = "MissingCoordinates"
                   /\ fc' = fc
                   /\ UNCHANGED <<property, comps, argument>> ]_vars

\* find-comps was refused for a property without coordinates that has comparables
FindCompsPreconditionsWitness ==
    /\ last.op = "find-comps" /\ last.res = "error"
    /\ last.error = "MissingCoordinates"
    /\ property # Null /\ "lat" \notin DOMAIN property
    /\ comps # <<>>

\* C5: when every radius of the ladder returns zero rows, find-comps finishes
\* with the empty outcome, which is not an error, and no step of the search
\* (a query answered with zero rows, then the empty outcome) has changed the
\* comparable list, the property or the argument.
EmptySearchLeavesList ==
    [][ (/\ fc # Null
         /\ fc' # fc
         /\ (fc' # Null \/ \A k \in 1..Len(last'.answers) : last'.answers[k] = 0)) =>
           /\ UNCHANGED <<property, comps, argument>>
           /\ (fc' = Null /\ Len(last'.answers) = Len(fc.radiiToTry)) =>
                 /\ last'.op = "find-comps"
                 /\ last'.res = "empty"
                 /\ last'.total = Len(comps)
                 /\ last'.usedRadius = fc.radiiToTry[Len(fc.radiiToTry)]
                 /\ fc.radius <= 200 => last'.usedRadius = 200 ]_vars

\* the whole ladder from 0.5 mile came back empty for a case with comparables
EmptySearchWitness ==
    /\ last.op = "find-comps" /\ last.res = "empty"
    /\ last.radius = 50 /\ Len(last.queried) = 5
    /\ comps # <<>>

----------------------------------------------------------------------------
(* Properties of manage-comps *)

\* C6: toggling the same comparable twice restores the list: the first toggle
\* flips the comparable's included flag, the second flips it back, and the
\* counts and the strength tier computed from the list are again what they
\* were before the first toggle.
ToggleTwiceRestores ==
    \A id \in Ids(comps) :
        LET idx == findIndex(comps, id)
            once == CompsAfter(comps, "toggle", [id |-> id], now)
            twice == CompsAfter(once.comps, "toggle", [id |-> id], now)
        IN  /\ once.ok /\ twice.ok
            /\ once.comps[idx].included = ~comps[idx].included
            /\ \A j \in 1..Len(comps) : j # idx => once.comps[j] = comps[j]
            /\ twice.comps = comps
            /\ SumPrice(Included(twice.comps)) = SumPrice(Included(comps))
            /\ Widget("manage-comps", "toggle", property, twice.comps)
                 = Widget("manage-comps", "toggle", property, comps)

\* a toggle has just excluded one of two comparables of an active property
ToggleWitness ==
    /\ last.op = "manage-comps" /\ last.action = "toggle" /\ last.res = "ok"
    /\ property # Null
    /\ Len(comps) = 2 /\ last.included = 1

\* C7: update, remove and toggle given an identifier that no comparable of
\* the list has fail with NotFound and change nothing.
AbsentIdNotFound ==
    [][ \A action \in IdActions :
        \A comp \in IdPayloads(UpdateFields) :
          (/\ last'.action = action
           /\ "id" \in DOMAIN comp
           /\ comp.id \notin Ids(comps)
           /\ ManageComps(action, comp)) =>
             /\ last'.res = "error" /\ last'.error = "NotFound"
             /\ UNCHANGED <<property, comps, argument>> ]_vars

\* a required field of an add payload is missing, empty or zero
AddFieldUnusable(comp) ==
    \/ "address" \notin DOMAIN comp \/ comp.address = <<>>
    \/ "saleDate" \notin DOMAIN comp \/ comp.saleDate = <<>>
    \/ "salePrice" \notin DOMAIN comp \/ comp.salePrice = 0

\* a required field of an add payload is missing
AddFieldMissing(comp) ==
    ~({"address", "saleDate", "salePrice"} \subseteq DOMAIN comp)

\* add refused: InvalidComparable and nothing changes
AddRefused ==
    /\ last'.res = "error" /\ last'.error = "InvalidComparable"
    /\ UNCHANGED <<property, comps, argument>>

\* add accepted: exactly one comparable is appended, included, with the
\* supplied fields and 0 or "" for the optional fields left out
AddAppended(comp) ==
    /\ last'.res = "ok"
    /\ Len(comps') = Len(comps) + 1
    /\ SubSeq(comps', 1, Len(comps)) = comps
    /\ LET c == comps'[Len(comps')] IN
         /\ c.included = TRUE
         /\ c.address = comp.address
         /\ c.saleDate = comp.saleDate
         /\ c.salePrice = comp.salePrice
         /\ \A k \in OptionalNumbers :
               c[k] = IF k \in DOMAIN comp THEN comp[k] ELSE 0
         /\ c.notes = IF "notes" \in DOMAIN comp THEN comp.notes ELSE <<>>
    /\ UNCHANGED <<property, argument>>

\* C8 (as stated): add fails with InvalidComparable when address, sale date
\* or sale price is missing, and appends exactly one included comparable
\* whenever all three are present.
AddValidatesPresence ==
    [][ (last'.action = "add") =>
        \A comp \in AddPayloads :
          ManageComps("add", comp) =>
             IF AddFieldMissing(comp) THEN AddRefused ELSE AddAppended(comp) ]_vars

\* C8: add fails with InvalidComparable and changes nothing when address,
\* sale date or sale price is missing, empty or zero; when all three are
\* present, non-empty and non-zero it appends exactly one comparable with
\* included = true, the supplied fields and 0 or "" for the optional fields
\* left out, and leaves the comparables already in the list as they were.
AddValidates ==
    [][ (last'.action = "add") =>
        \A comp \in AddPayloads :
          ManageComps("add", comp) =>
             IF AddFieldUnusable(comp) THEN AddRefused ELSE AddAppended(comp) ]_vars

\* an add with optional fields has appended a second comparable
AddWitness ==
    /\ last.op = "manage-comps" /\ last.action = "add" /\ last.res = "ok"
    /\ Len(comps) = 2
    /\ comps[2].included /\ comps[2].sqft = 900 /\ comps[1].sqft = 0

CompFields ==
    {"id", "address", "saleDate", "salePrice", "sqft", "beds", "baths",
     "distance", "included", "notes"}

\* C9: update of a comparable in the list overwrites exactly the fields the
\* payload supplies; every other field of that comparable, its included flag
\* and its id among them, and every other comparable keep their values.
UpdateMergesPartially ==
    [][ (last'.action = "update") =>
        \A i \in 1..Len(comps) : \A f \in UpdateFields :
          LET comp == [id |-> comps[i].id] @@ f IN
          ManageComps("update", comp) =>
             LET idx == CHOOSE k \in 1..Len(comps) :
                           /\ comps[k].id = comp.id
                           /\ \A j \in 1..(k - 1) : comps[j].id # comp.id
             IN  /\ last'.res = "ok"
                 /\ Len(comps') = Len(comps)
                 /\ DOMAIN comps'[idx] = CompFields
                 /\ \A k \in CompFields :
                       comps'[idx][k] = IF k \in DOMAIN f THEN f[k] ELSE comps[idx][k]
                 /\ \A j \in 1..Len(comps) : j # idx => comps'[j] = comps[j]
                 /\ UNCHANGED <<property, argument>> ]_vars

\* an update has changed the price of an excluded comparable and kept the rest
UpdateWitness ==
    /\ last.op = "manage-comps" /\ last.action = "update" /\ last.res = "ok"
    /\ \E i \in 1..Len(comps) :
          /\ comps[i].salePrice = 520000
          /\ comps[i].address = GoodComp.address
          /\ ~comps[i].included

----------------------------------------------------------------------------
(* Properties of calculateCaseStrength *)

\* C10: calculateCaseStrength returns strong when the gap (assessed minus
\* estimated, as a percentage of assessed) is at least 15, medium when it is
\* at least 5 and below 15, and weak otherwise, so weak whenever the estimate
\* is not below the assessment; (500000, 425000) is strong, (500000, 460000)
\* medium, (500000, 490000) weak and (500000, 520000) weak.
CaseStrengthThresholds ==
    last.op = "check-eligibility" =>
        LET a == last.assessedValue
            e == last.estimatedMarketValue
            s == last.strength
        IN  /\ s \in {"weak", "medium", "strong"}
            /\ s = "strong" <=> 100 * (a - e) >= 15 * a
            /\ s = "medium" <=> (100 * (a - e) >= 5 * a /\ 100 * (a - e) < 15 * a)
            /\ s = "weak" <=> 100 * (a - e) < 5 * a
            /\ e >= a => s = "weak"
            /\ (a = 500000 /\ e = 425000) => s = "strong"
            /\ (a = 500000 /\ e = 460000) => s = "medium"
            /\ (a = 500000 /\ e = 490000) => s = "weak"
            /\ (a = 500000 /\ e = 520000) => s = "weak"

\* the gap of exactly 15 percent has been scored
CaseStrengthWitness ==
    /\ last.op = "check-eligibility"
    /\ last.assessedValue = 500000 /\ last.estimatedMarketValue = 425000
    /\ last.strength = "strong"

----------------------------------------------------------------------------
(* Properties of the strength tier, the argument and the packet *)

\* the tier of assessed value a against the mean sum / n (n > 0, a > 0)
TierOfMean(a, sum, n) ==
    IF 100 * (a * n - sum) >= 15 * a * n THEN "strong"
    ELSE IF 100 * (a * n - sum) >= 5 * a * n THEN "medium"
    ELSE "weak"

IncludedIndices(cs) == {i \in 1..Len(cs) : cs[i].included}

RECURSIVE SumOver(_, _)
SumOver(cs, idx) ==
    IF idx = {} THEN 0
    ELSE LET i == CHOOSE i \in idx : TRUE IN cs[i].salePrice + SumOver(cs, idx \ {i})

\* C11: the strength tier a successful add, update, remove, toggle or
\* find-comps returns for an active property with positive assessed value is
\* the tier of the assessed value against the mean sale price of the
\* comparables now included, or against the property's stored estimate when
\* none is included.
StrengthIsFresh ==
    (/\ property # Null
     /\ \/ last.op = "manage-comps" /\ last.action \in {"add", "update", "remove", "toggle"}
        \/ last.op = "find-comps"
     /\ last.res \in {"ok", "empty"}
     /\ property.assessedValue > 0)
        => LET idx == IncludedIndices(comps) IN
           last.caseStrength =
               IF idx # {}
               THEN TierOfMean(property.assessedValue, SumOver(comps, idx), Cardinality(idx))
               ELSE TierOfMean(property.assessedValue, property.estimatedMarketValue, 1)

PacketOps == {"generate-packet", "export-packet"}

CaseReady == property # Null /\ IncludedIndices(comps) # {} /\ argument # Null

\* C12: generate-packet and export-packet succeed exactly in the states
\* where a property is active, a comparable is included and an argument is
\* stored; otherwise they return an error; either way the case is unchanged.
\* They fail while no generate-argument has succeeded, and right after a
\* successful generate-argument the case is ready for them.
PacketSequencing ==
    [][ /\ (last'.op \in PacketOps) =>
              /\ UNCHANGED <<property, comps, argument>>
              /\ last'.res = IF CaseReady THEN "ok" ELSE "error"
              /\ argument = Null => last'.res = "error"
        /\ (last'.op = "generate-argument" /\ last'.res = "ok" /\ last' # last) =>
              CaseReady' ]_vars

\* a packet was built for a case with an excluded comparable
PacketSequencingWitness ==
    /\ last.op = "generate-packet" /\ last.res = "ok"
    /\ Len(comps) = 2 /\ Cardinality(IncludedIndices(comps)) = 1

\* C13: the comparable table of a packet that was built has exactly one row
\* for each included comparable, in list order, and none for an excluded
\* one, and the packet carries the stored narrative unchanged.
PacketRowsAreIncluded ==
    (last.op \in PacketOps /\ last.res = "ok") =>
        LET rows == last.packet.compRows
            idx == IncludedIndices(comps)
        IN  /\ Len(rows) = Cardinality(idx)
            /\ \E f \in [1..Len(rows) -> idx] :
                  /\ \A j, k \in 1..Len(rows) : j < k => f[j] < f[k]
                  /\ \A k \in 1..Len(rows) :
                        /\ rows[k][1] = comps[f[k]].address
                        /\ rows[k][2] = comps[f[k]].saleDate
                        /\ rows[k][3] = comps[f[k]].salePrice
                        /\ rows[k][4] = comps[f[k]].sqft
                        /\ rows[k][5] = <<comps[f[k]].beds, comps[f[k]].baths>>
                        /\ rows[k][6] = comps[f[k]].distance
            /\ last.packet.narrative = argument.narrative

\* a packet was exported with the second of two comparables excluded
PacketRowsWitness ==
    /\ last.op = "export-packet" /\ last.res = "ok"
    /\ Len(comps) = 2 /\ comps[1].included /\ ~comps[2].included
    /\ comps[1].salePrice # comps[2].salePrice

\* C14: a successful generate-argument called without a declared value stores
\* the mean sale price of the included comparables rounded to the nearest
\* integer (halves up); called with a declared value it stores that value.
DeclaredValueDefault ==
    (last.op = "generate-argument" /\ last.res = "ok") =>
        LET idx == IncludedIndices(comps)
            n == Cardinality(idx)
            sum == SumOver(comps, idx)
            d == argument.declaredMarketValue
        IN  IF last.given = <<>>
            THEN 2 * n * d <= 2 * sum + n /\ 2 * sum + n < 2 * n * d + 2 * n
            ELSE d = last.given[1]

\* the default was taken from included prices 900000 and 1000000
DeclaredValueWitness ==
    /\ last.op = "generate-argument" /\ last.res = "ok" /\ last.given = <<>>
    /\ Len(comps) = 2 /\ comps[1].included /\ comps[2].included
    /\ {comps[1].salePrice, comps[2].salePrice} = {900000, 1000000}
    /\ argument.declaredMarketValue = 950000

----------------------------------------------------------------------------
(* Properties of lookup-property and of the active property *)

\* C15: when the record source answers lookup-property, zero rows give the
\* not-found outcome and leave the property as it was; exactly one row gives
\* the found outcome and the property becomes the one resolved from that row,
\* with nothing kept of the previous one; two or more rows give the candidate
\* list and leave the property as it was.  The comparable list and the
\* argument are unchanged in all three cases.
LookupCardinality ==
    [][ (lk # Null /\ last'.op = "lookup-property") =>
        \A records \in LookupResponses :
          LookupRespond(records) =>
             /\ UNCHANGED <<comps, argument>>
             /\ Len(records) = 0 => (last'.res = "not-found" /\ property' = property)
             /\ Len(records) = 1 =>
                   /\ last'.res = "found"
                   /\ property' = recordToProperty(records[1], lk.est)
                   /\ property'.apn = records[1].parcel_number
                   /\ ("lat" \in DOMAIN property') = ("the_geom" \in DOMAIN records[1])
             /\ Len(records) >= 2 =>
                   /\ last'.res = "multiple"
                   /\ Len(last'.options) = Len(records)
                   /\ property' = property ]_vars

\* a single row without geometry replaced a property that had coordinates,
\* in a case with an argument
LookupCardinalityWitness ==
    /\ last.op = "lookup-property" /\ last.res = "found"
    /\ property # Null /\ "lat" \notin DOMAIN property
    /\ argument # Null

\* C16: whenever a property is active, its assessed value and its estimated
\* market value are strictly positive.
PositiveValues ==
    property # Null => (property.assessedValue > 0 /\ property.estimatedMarketValue > 0)

\* C17: every operation that reports an error is all-or-nothing.  A step that
\* ends with an error response (a refused precondition, an invalid or unknown
\* comparable, a sequencing error, no matching record, a failure of the record
\* source at any radius of the ladder) leaves property, comps and argument as
\* they were, and so does every step in which find-comps or lookup-property
\* sends a query and is suspended on the record source; hence the operation
\* that ends with an error has changed nothing of the case, whatever the
\* operations served while it was suspended have done.
AllOrNothing ==
    [][ (\/ last'.res \in {"error", "not-found"}
         \/ (fc' # Null /\ fc' # fc)
         \/ (lk' # Null /\ lk' # lk))
            => UNCHANGED <<property, comps, argument>> ]_vars

\* the record source failed at the second radius of the ladder, after an empty
\* answer at the first, on a case with comparables and an argument
AllOrNothingWitness ==
    /\ last.op = "find-comps" /\ last.res = "error"
    /\ last.error = "SourceUnavailable"
    /\ Len(last.answers) = 1
    /\ Len(comps) > 0 /\ argument # Null

----------------------------------------------------------------------------
(* Properties of parseAddress, of removal and of the radius ladder *)

\* "<number> <name> <suffix>", then " #<unit>" when the unit code is not zero:
\* number is the first positive number group and unit the unit code, both
\* without their leading zeros
NormalizedAddress(a) ==
    LET number == IF ParseDigits(a.primary) > 0 THEN a.primary ELSE a.secondary
        base == DecimalDigits(ParseDigits(number)) \o <<" ">> \o a.name \o <<" ">> \o a.suffix
    IN  IF ParseDigits(a.unit) > 0
        THEN base \o <<" ", "#">> \o DecimalDigits(ParseDigits(a.unit))
        ELSE base

\* C18: for every raw address of the documented positional format, whatever
\* the street name, parseAddress returns "<number> <name> <suffix>" followed by
\* " #<unit>" only when the unit code is non-zero.
AddressNormalized ==
    (last.op = "parseAddress" /\ last.res = "parsed")
        => last.out = NormalizedAddress(last.input)

\* C19: no resurrection of removed items.  After a manage-comps remove that
\* succeeds on an id X of the list, no comparable of the list has the id X
\* (so that a later update, toggle or remove naming X finds nothing).
RemovedIsAbsent ==
    [][ (last'.op = "manage-comps" /\ last'.action = "remove" /\ last'.res = "ok")
          => \A i \in 1..Len(comps) :
                ManageComps("remove", [id |-> comps[i].id])
                    => comps[i].id \notin Ids(comps') ]_vars

\* the requested radius followed by those of 0.75, 1.0, 1.5, 2.0 above it
LadderOf(radius) ==
    <<radius>> \o SelectSeq(<<75, 100, 150, 200>>, LAMBDA c : c > radius)

\* C20: while find-comps searches, its ladder is the requested radius followed
\* by those of 0.75, 1.0, 1.5 and 2.0 miles that are strictly greater than it,
\* without repeats, and every radius it has passed to the record source is at
\* most 2.0 miles.
RadiusCeiling ==
    fc # Null =>
        /\ fc.radiiToTry = LadderOf(fc.radius)
        /\ IsAscending(fc.radiiToTry)
        /\ \A k \in 1..Len(fc.queried) :
              /\ fc.queried[k].r = fc.radiiToTry[k]
              /\ fc.queried[k].r <= 200

----------------------------------------------------------------------------
(* Frame properties of the case *)

\* C21: a successful toggle of a comparable of the list flips the included
\* flag of that comparable and nothing else: its other fields, every other
\* comparable, the order of the list, the property and the argument are as
\* they were.
ToggleOnlyFlips ==
    [][ (last'.action = "toggle") =>
        \A i \in 1..Len(comps) :
          ManageComps("toggle", [id |-> comps[i].id]) =>
             LET idx == findIndex(comps, comps[i].id) IN
             /\ last'.res = "ok"
             /\ comps[idx].id = comps[i].id
             /\ Len(comps') = Len(comps)
             /\ comps'[idx].included = ~comps[idx].included
             /\ DOMAIN comps'[idx] = CompFields
             /\ \A k \in CompFields \ {"included"} : comps'[idx][k] = comps[idx][k]
             /\ \A j \in 1..Len(comps) : j # idx => comps'[j] = comps[j]
             /\ UNCHANGED <<property, argument>> ]_vars

\* a toggle has excluded the first of two different comparables of a case
\* with a property and an argument
ToggleOnlyFlipsWitness ==
    /\ last.op = "manage-comps" /\ last.action = "toggle" /\ last.res = "ok"
    /\ property # Null /\ argument # Null
    /\ Len(comps) = 2
    /\ ~comps[1].included /\ comps[2].included
    /\ comps[1].salePrice # comps[2].salePrice

\* C22: the stored argument changes only in a generate-argument step that
\* succeeds.  No manage-comps, find-comps, lookup-property or manage-property
\* step changes it, and neither does a generate-argument step that is refused.
ArgumentFrame ==
    [][ argument' # argument =>
           /\ last'.op = "generate-argument" /\ last'.res = "ok"
           /\ \E tone \in Tones, d \in DeclaredInputs : GenerateArgument(tone, d) ]_vars

\* the argument has outlived the removal of every comparable
ArgumentFrameWitness ==
    /\ argument # Null
    /\ comps = <<>>
    /\ last.op = "manage-comps" /\ last.action = "remove" /\ last.res = "ok"

----------------------------------------------------------------------------
(* Properties of the packet aggregates *)

\* C23: the packet that generate-packet or export-packet has just built
\* reports the rounded mean sale price of the comparables included now, and
\* the strength tier obtained by scoring the property's assessed value
\* against that mean.
PacketAggregatesFresh ==
    (last.op \in PacketOps /\ last.res = "ok") =>
        LET included == Included(comps)
            mean == RoundDiv(SumPrice(included), Len(included))
        IN  /\ last.packet.avgCompPrice = mean
            /\ last.packet.caseStrength
                  = calculateCaseStrength(property.assessedValue, mean)

----------------------------------------------------------------------------
(* Properties of mapPropertyType and recordToProperty *)

\* the mapping as documented: live-work, condo, townhouse, co-op, else sfh
DocumentedType(text) ==
    LET lower == toLowerCase(text) IN
    IF includes(lower, StrCondominium) /\ includes(lower, StrLiveWork) THEN "live-work"
    ELSE IF includes(lower, StrCondominium) THEN "condo"
    ELSE IF includes(lower, StrTownHouse) THEN "townhouse"
    ELSE IF includes(lower, StrCoop) THEN "co-op"
    ELSE "sfh"

\* C24: for every class text, mapPropertyType gives live-work when the text
\* contains both "condominium" and "live/work", otherwise condo when it
\* contains "condominium", otherwise townhouse when it contains "town house",
\* otherwise co-op for a co-op text, and sfh for every other text, the empty
\* text of a missing class among them.
TypeMapping ==
    (last.op = "mapPropertyType" /\ last.res = "mapped")
        => last.out = DocumentedType(last.input)

\* C25: the property that lookup-property resolves from a single row has as
\* assessedValue the sum of the row's land and improvement values, and as
\* estimatedMarketValue the caller's estimate when one was supplied and the
\* assessedValue when none was.
ReferenceValueDefault ==
    [][ (lk # Null /\ last'.op = "lookup-property" /\ last'.res = "found") =>
        \A records \in LookupResponses :
          (Len(records) = 1 /\ LookupRespond(records)) =>
             /\ property'.assessedValue
                   = FieldNumber(records[1], "assessed_land_value")
                       + FieldNumber(records[1], "assessed_improvement_value")
             /\ lk.est = <<>> => property'.estimatedMarketValue = property'.assessedValue
             /\ lk.est # <<>> => property'.estimatedMarketValue = lk.est[1] ]_vars

\* a lookup with an estimate below the assessed value has resolved
ReferenceValueWitness ==
    /\ last.op = "lookup-property" /\ last.res = "found"
    /\ property.assessedValue = 500000
    /\ property.estimatedMarketValue = 450000

----------------------------------------------------------------------------
(* Properties of the comparable list under every operation *)

\* C26: every comparable of the list has a strictly positive sale price,
\* whatever add and update payloads manage-comps accepted and whatever rows
\* find-comps was given.
PositivePrices ==
    \A i \in 1..Len(comps) : comps[i].salePrice > 0

\* C27: a find-comps call that ends keeps every comparable that was in the
\* list as it was and where it was (flag, notes, price and distance
\* included); what it adds comes after them, is included, and has an id that
\* no earlier comparable had; a returned row whose id an earlier comparable
\* has adds nothing.
FirstWriteWins ==
    [][ (fc # Null /\ fc' = Null /\ last'.op = "find-comps") =>
           /\ Len(comps') >= Len(comps)
           /\ SubSeq(comps', 1, Len(comps)) = comps
           /\ \A j \in (Len(comps) + 1)..Len(comps') :
                 /\ comps'[j].included
                 /\ comps'[j].id \notin Ids(comps)
           /\ last'.res = "ok" =>
                 \A k \in 1..Len(last'.records) :
                     LET rec == last'.records[k] IN
                     (Has(rec, "parcel_number") /\ AssessedOf(rec) > 0) =>
                         /\ StrComp \o rec.parcel_number \in Ids(comps')
                         /\ StrComp \o rec.parcel_number \in Ids(comps) =>
                               {i \in 1..Len(comps') : comps'[i].id = StrComp \o rec.parcel_number}
                                  = {i \in 1..Len(comps) : comps[i].id = StrComp \o rec.parcel_number} ]_vars

\* find-comps has returned the row of a comparable that had been excluded and
\* repriced by hand, in a list that holds another comparable
FirstWriteWinsWitness ==
    /\ last.op = "find-comps" /\ last.res = "ok"
    /\ Len(comps) = 2
    /\ \E i \in 1..Len(comps) :
          /\ comps[i].id = StrComp \o last.records[1].parcel_number
          /\ ~comps[i].included
          /\ comps[i].salePrice = 520000

\* C28: a step that replaces the active property, through lookup-property or
\* through manage-property, leaves the comparable list as it was, the
\* distance of every comparable included.
DistancesFrozen ==
    [][ ((last'.op \in {"lookup-property", "manage-property"} /\ last' # last)
            \/ property' # property)
          => /\ comps' = comps
             /\ \A i \in 1..Len(comps) : comps'[i].distance = comps[i].distance ]_vars

\* manage-property has replaced the property from which the distance of a
\* comparable was measured by one without coordinates
DistancesFrozenWitness ==
    /\ last.op = "manage-property"
    /\ property # Null /\ "lat" \notin DOMAIN property
    /\ \E i \in 1..Len(comps) :
          /\ comps[i].distance > 0
          /\ comps[i].id = StrComp \o RowGreen.parcel_number

----------------------------------------------------------------------------
(* Properties of the queries sent to the record source *)

\* C29: there is no automatic retry.  The queries of one find-comps call have
\* pairwise different radii, so that each radius of the ladder is queried at
\* most once; when a query of find-comps or lookup-property fails, the call
\* ends there with the SourceUnavailable error, having sent no query after
\* the one that failed.
NoRetry ==
    [][ /\ fc' # Null =>
              \A j, k \in 1..Len(fc'.queried) :
                  fc'.queried[j].r = fc'.queried[k].r => j = k
        /\ (fc # Null /\ fc' = Null) =>
              /\ \A j, k \in 1..Len(last'.queried) :
                    last'.queried[j].r = last'.queried[k].r => j = k
              /\ Len(last'.queried) <= Len(fc.radiiToTry)
        /\ (fc # Null /\ FindCompsFail) =>
              /\ fc' = Null
              /\ last'.res = "error" /\ last'.error = "SourceUnavailable"
              /\ last'.queried = fc.queried
        /\ (lk # Null /\ LookupFail) =>
              /\ lk' = Null
              /\ last'.res = "error" /\ last'.error = "SourceUnavailable" ]_vars

\* the third query of a find-comps call has failed after two empty answers
NoRetryWitness ==
    /\ last.op = "find-comps" /\ last.res = "error"
    /\ last.error = "SourceUnavailable"
    /\ Len(last.queried) = 3
    /\ last.answers = <<0, 0>>

----------------------------------------------------------------------------
(* Properties of the narrative *)

\* the k-th smallest element of a set of indices
RECURSIVE Nth(_, _)
Nth(idx, k) ==
    LET m == CHOOSE i \in idx : \A j \in idx : i <= j IN
    IF k = 1 THEN m ELSE Nth(idx \ {m}, k - 1)

\* C30: in each of the three tones, the narrative generate-argument has just
\* produced has one line per comparable included at that time, numbered from
\* 1 in the order the comparables have in the list (the order in which they
\* were added, which toggling does not change), and states the address of the
\* property, the declared value and the gap between assessed and declared
\* value as a percentage of the assessed value, to the nearest tenth.
NarrativeEnumerates ==
    (last.op = "generate-argument" /\ last.res = "ok") =>
        LET idx == IncludedIndices(comps)
            nar == last.narrative
            a == property.assessedValue
            d == argument.declaredMarketValue
        IN  /\ nar = argument.narrative
            /\ nar.tone \in Tones /\ nar.tone = argument.tone
            /\ Len(nar.compLines) = Cardinality(idx)
            /\ \A k \in 1..Len(nar.compLines) :
                  LET c == comps[Nth(idx, k)]
                      line == nar.compLines[k]
                  IN  /\ line.n = k
                      /\ c.included
                      /\ line.address = c.address
                      /\ line.saleDate = c.saleDate
                      /\ line.salePrice = c.salePrice
            /\ nar.address = property.address
            /\ nar.declared = d
            /\ nar.gapPct[1] \in {"number", "-0.0"}
            /\ 2 * a * nar.gapPct[2] - a <= 2000 * (a - d)
            /\ 2000 * (a - d) <= 2 * a * nar.gapPct[2] + a

\* a concise narrative whose only line is the second comparable of the list,
\* the first being excluded, with a gap of 9.85 percent printed as 9.8
NarrativeWitness ==
    /\ last.op = "generate-argument" /\ last.res = "ok"
    /\ property.assessedValue - argument.declaredMarketValue = 49250
    /\ last.narrative.gapPct = <<"number", 98>>
    /\ argument.tone = "concise"
    /\ Len(comps) = 2 /\ ~comps[1].included /\ comps[2].included
    /\ comps[1].salePrice # comps[2].salePrice
    /\ Len(last.narrative.compLines) = 1

----------------------------------------------------------------------------
(* Consistency of the packet with the case *)

\* C31: in a packet that generate-packet or export-packet has just built, the
\* comparables the narrative enumerates are the comparables of the table.
NarrativeMatchesTable ==
    (last.op \in PacketOps /\ last.res = "ok") =>
        LET lines == last.packet.narrative.compLines
            rows == last.packet.compRows
        IN  {<<lines[k].address, lines[k].saleDate, lines[k].salePrice>> : k \in 1..Len(lines)}
              = {<<rows[k][1], rows[k][2], rows[k][3]>> : k \in 1..Len(rows)}

\* C32: in a packet that has just been built, the address, the parcel number
\* and the assessed value the narrative was drafted with are those of the
\* active property the packet's summary shows.
NarrativeMatchesProperty ==
    (last.op \in PacketOps /\ last.res = "ok") =>
        LET nar == last.packet.narrative IN
        /\ last.packet.address = property.address
        /\ last.packet.apn = property.apn
        /\ nar.address = last.packet.address
        /\ nar.apn = last.packet.apn
        /\ nar.assessedValue = last.packet.assessedValue

----------------------------------------------------------------------------
(* Properties of interleaved handlers *)

\* C33: when a find-comps call inserts comparables, the query that returned
\* them was centred on the coordinates of the property that is active at that
\* time and excluded its parcel, also when the property was replaced while
\* the call was suspended: the active property has coordinates and no
\* inserted comparable is its own parcel.
InsertedForActiveProperty ==
    [][ (fc # Null /\ fc' = Null /\ last'.op = "find-comps" /\ last'.res = "ok") =>
           LET q == fc.queried[Len(fc.queried)] IN
           /\ q.apn = property.apn
           /\ Has(property, "lat") /\ Has(property, "lng")
           /\ q.lat = <<property.lat>> /\ q.lng = <<property.lng>>
           /\ \A j \in (Len(comps) + 1)..Len(comps') :
                 comps'[j].id # StrComp \o property.apn ]_vars

\* the comparables of the list that stand for the parcel of a row of the source
EntriesOfParcel(parcel) == {i \in 1..Len(comps) : comps[i].id = StrComp \o parcel}

\* C34: however two find-comps invocations and manage-comps add, remove and
\* toggle interleave at the awaits of the record source, the comparable list
\* never holds two entries for the same parcel, provided each response lists
\* each parcel at most once.
OneEntryPerParcel ==
    \A row \in ParcelRows :
        Cardinality(EntriesOfParcel(row.parcel_number)) <= 1

\* an invocation returns, while another one is suspended, with a row of the
\* parcel that is in the list already: the list keeps the one entry it had
OneEntryPerParcelWitness ==
    /\ fc = Null /\ fc2 # Null
    /\ last.op = "find-comps" /\ last.res = "ok"
    /\ last.records = <<RowGreenAgain>>
    /\ \E i \in EntriesOfParcel(RowGreen.parcel_number) :
          comps[i].salePrice = AssessedOf(RowGreen)
    /\ Cardinality(EntriesOfParcel(RowGreen.parcel_number)) = 1

\* manage-comps remove has just taken the comparable of parcel A1 off the list
RemovedGreen ==
    /\ last.op = "manage-comps" /\ last.action = "remove" /\ last.res = "ok"
    /\ EntriesOfParcel(RowGreen.parcel_number) = {}

\* C35: a comparable removed with manage-comps remove is not inserted again
\* by a later find-comps, whatever rows the record source returns.
RemovedStaysRemoved ==
    [](RemovedGreen => [](EntriesOfParcel(RowGreen.parcel_number) = {}))

\* the step acted on one comparable, the first with the id the payload names:
\* remove took it off the list, update and toggle left every other entry as
\* it was
ActedOnNamed(action, comp) ==
    /\ comp # Null
    /\ "id" \in DOMAIN comp
    /\ \E idx \in 1..Len(comps) :
          /\ comps[idx].id = comp.id
          /\ IF action = "remove"
             THEN comps' = RemoveAt(comps, idx)
             ELSE /\ Len(comps') = Len(comps)
                  /\ \A j \in 1..Len(comps) : j # idx => comps'[j] = comps[j]

\* C36: every manage-comps update, remove or toggle either acts on exactly
\* one comparable, the one whose id was named, or reports an error; it never
\* reports success for a payload that names no comparable, such as an omitted
\* payload or an omitted id.
ActsOrFails ==
    [][ \A action \in IdActions :
        \A comp \in IdPayloads(UpdateFields) :
          (/\ last'.action = action
           /\ ManageComps(action, comp)) =>
             \/ last'.res = "error"
             \/ ActedOnNamed(action, comp) ]_vars

\* C37: when find-comps is enabled (a property with coordinates is active)
\* before a manage-property call, it is still enabled after it: the call
\* keeps the coordinates of the active property.
ManagePropertyKeepsSearchable ==
    [][ \A input \in PropertyInputs :
          (/\ FindCompsPrecondition(property) = ""
           /\ ManageProperty(input)) =>
             FindCompsPrecondition(property') = "" ]_vars

\* the response of the step is that of an operation that only reads the case
ReadOnlyResponse(r) ==
    \/ r.op \in {"check-eligibility", "get-submission-info", "generate-packet", "export-packet"}
    \/ r.op = "manage-comps" /\ r.action = "list"

\* C38: check-eligibility, get-submission-info, generate-packet,
\* export-packet and manage-comps list never change the case: the property,
\* the comparable list (contents and order) and the argument are the same
\* before and after, whether the operation succeeds or fails.
ReadOnlyOperations ==
    [][ ReadOnlyResponse(last') => UNCHANGED <<property, comps, argument>> ]_vars

\* check-eligibility has answered for values that are not those of the active
\* property, on a case with comparables and an argument
ReadOnlyWitness ==
    /\ last.op = "check-eligibility"
    /\ property # Null /\ property.assessedValue # last.assessedValue
    /\ Len(comps) = 2 /\ Len(Included(comps)) = 1
    /\ argument # Null

\* two responses agree: both are refusals of the same kind, or both are
\* packets and, when built at the same instant (the filing window has the same
\* status), the same document
SameOutcome(a, b) ==
    /\ a.res = b.res
    /\ a.res = "error" => a.error = b.error
    /\ (a.res = "ok" /\ a.packet.windowOpen = b.packet.windowOpen) => a.packet = b.packet

\* C39: export-packet and generate-packet are equivalent on every case: the
\* answer either handler has just given fails exactly when the case lacks a
\* property, an included comparable or an argument, and the other handler,
\* run on the same case, fails with it for the same reason and, when both
\* succeed at the same instant, returns the same packet document.
PacketHandlersAgree ==
    /\ (last.op = "generate-packet") =>
          /\ last.res = "error" <=> ~CaseReady
          /\ \A today \in PacketDates : SameOutcome(last, ExportPacketResponse(today))
    /\ (last.op = "export-packet") =>
          /\ last.res = "error" <=> ~CaseReady
          /\ \A today \in PacketDates, later \in PacketDates :
                SameOutcome(last, GeneratePacketResponse(today, later))

\* export-packet has answered with a packet that leaves an excluded
\* comparable out, and generate-packet at the same instant answers with the
\* same document beside its preview
PacketHandlersWitness ==
    /\ last.op = "export-packet" /\ last.res = "ok"
    /\ Len(comps) = 2
    /\ Len(last.packet.compRows) = 1
    /\ last.packet.windowOpen
    /\ \E today \in PacketDates, later \in PacketDates :
          /\ GeneratePacketResponse(today, later).res = "ok"
          /\ GeneratePacketResponse(today, later).props.filingWindowOpen
          /\ Len(GeneratePacketResponse(today, later).props.comps) = 1
          /\ GeneratePacketResponse(today, later).packet = last.packet

============================================================================
